---- MODULE Spec2Model ----
(***************************************************************************)
(* Spotify Playlist Analyzer: the API client of src/lib/spotify.ts and the  *)
(* filter/aggregate engine of the PlaylistAnalyzer component.              *)
(*                                                                         *)
(* One SpotifyClient serves one call at a time.  A call runs between the   *)
(* awaits of the code: every action below is the code that runs from one   *)
(* suspension point (an HTTP request in flight, a delay() timer, the       *)
(* settlement of this.fetch) to the next.  The upstream service is the     *)
(* environment: it answers every request with a success, a 429, another    *)
(* non-success status or a network failure.                                *)
(***************************************************************************)
EXTENDS Integers, Sequences, FiniteSets, TLC

VARIABLES
  rev,         \* revision of the client: "current" or "earlier"
  pc,          \* where the call is suspended
  op,          \* the public method that was called
  input,       \* trackIds / trackUris of the call
  collection,  \* upstream: the paged collection (playlist tracks, saved tracks)
  playlist,    \* upstream: the URIs appended to the target playlist so far
  featMode,    \* upstream: which tracks the feature endpoint has features for
  offset,      \* getAll*Tracks: let offset
  acc,         \* allTracks / allFeatures
  chunks,      \* getAudioFeatures / addTracksToPlaylist: const chunks
  i,           \* chunk loop index
  failed,      \* indices of the chunks whose this.fetch rejected
  calls,       \* the requests handed to this.fetch by the call, in order
  request,     \* fetch: the request of the running this.fetch
  attempt,     \* fetch: let attempt
  sent,        \* fetch: the HTTP requests issued by the running this.fetch
  answers,     \* fetch: the upstream answers it has received
  sleeps,      \* fetch: the delays it has completed, in ms
  timer,       \* the delay() being awaited, in ms
  settled,     \* how the last this.fetch settled
  result,      \* how the call settled for its caller
  tracks,         \* PlaylistAnalyzer: the tracks it works on
  filters,        \* PlaylistAnalyzer: const [filters, setFilters]
  filteredTracks, \* PlaylistAnalyzer: the filteredTracks memo of the last render
  stats,          \* PlaylistAnalyzer: the stats memo of the last render
  rendered,       \* whether the component has rendered
  loaderRev,         \* revision of the loading effect: "features" or "bpm"
  initialTracks,     \* PlaylistAnalyzer: the tracks prop
  lpc,               \* where the loading effect is suspended
  batches,           \* const batches / tracksToAnalyze
  bi,                \* the loop index i of the loading effect
  results,           \* analyzeBPMBatch: const results
  isLoadingFeatures, \* const [isLoadingFeatures, setIsLoadingFeatures]
  loadingProgress,   \* const [loadingProgress, setLoadingProgress]
  loadingError,      \* const [loadingError, setLoadingError]
  trace,             \* the requests issued and the delays completed by the effect
  routePc,        \* POST /api/playlists/create: where the handler is suspended
  routeBody,      \* POST /api/playlists/create: the body of the request
  routeResponse,  \* POST /api/playlists/create: the response of the handler
  isCreatingPlaylist, \* PlaylistAnalyzer: const [isCreatingPlaylist, ...]
  flights,            \* the running calls of handleCreatePlaylist
  posts,              \* the bodies posted to /api/playlists/create, in order
  opened,             \* the number of calls of window.open
  isModalOpen,        \* CreatePlaylistButton: const [isModalOpen, setIsModalOpen]
  name,               \* CreatePlaylistButton: const [name, setName]
  error,              \* CreatePlaylistButton: const [error, setError]
  cookie,             \* the JWT of the session cookie
  now,                \* the clock, in seconds
  url,                \* the page the browser requests
  pagePc,             \* the position of the page function
  jwtIn,              \* the token the jwt callback was last called with
  jwtOut,             \* the token it returned
  featuresRequest,    \* POST /api/audio-features: the session and the body of the request
  spotifyResponse,    \* POST /api/audio-features: the response of its fetch
  featuresPc,         \* POST /api/audio-features: the position of the handler
  spotifyRequests,    \* POST /api/audio-features: the requests it sent upstream
  featuresResponse    \* POST /api/audio-features: the response of the handler

clientVars == <<rev, pc, op, input, collection, playlist, featMode, offset, acc,
                chunks, i, failed, calls, request, attempt, sent, answers, sleeps,
                timer, settled, result>>

analyzerVars == <<tracks, filters, filteredTracks, stats, rendered>>

loaderVars == <<loaderRev, initialTracks, lpc, batches, bi, results,
                isLoadingFeatures, loadingProgress, loadingError, trace>>

\* the creation of a playlist: PlaylistAnalyzer and its CreatePlaylistButton
createVars == <<isCreatingPlaylist, flights, posts, opened, isModalOpen, name, error>>

\* the state of the PlaylistAnalyzer component
componentVars == <<analyzerVars, loaderVars, createVars>>

\* the state of the handler of POST /api/playlists/create
routeVars == <<routePc, routeBody, routeResponse>>

\* what an action of the component leaves alone outside the component
\* the pages with the session of src/lib/auth.ts
pageVars == <<cookie, now, url, pagePc, jwtIn, jwtOut>>

\* the route POST /api/audio-features
featuresVars == <<featuresRequest, spotifyResponse, featuresPc, spotifyRequests, featuresResponse>>

\* the server side outside the route POST /api/playlists/create
outsideRoute == <<pageVars, featuresVars>>

outsideComponent == <<clientVars, routeVars, outsideRoute>>

\* what a call on the client leaves alone outside the client
outsideClient == <<componentVars, routeVars, outsideRoute>>

vars == <<clientVars, componentVars, routeVars, outsideRoute>>

opVars    == <<offset, acc, chunks, i, failed>>
fetchVars == <<request, attempt, sent, answers, sleeps>>
upVars    == <<collection, playlist, featMode>>

----------------------------------------------------------------------------
(* Bounds of the model *)

\* inputs hold up to MaxFull full pages/chunks plus a remainder
MaxFull == 2

\* the analyzer works on up to MaxTracks tracks
MaxTracks == 3

\* the criteria handed to the filter set up to MaxCriteria fields at once
MaxCriteria == 2

----------------------------------------------------------------------------
(* Program constants *)

Retries          == 3      \* fetch: retries = 3
PageLimit        == 50     \* getAll*Tracks: const limit = 50
FeatureChunkSize == 50     \* getAudioFeatures (current): const chunkSize = 50
FeatureChunkSizeEarlier == 100  \* getAudioFeatures (earlier): i += 100
UriChunkSize     == 100    \* addTracksToPlaylist: i += 100
PageDelay        == 200    \* getAll*Tracks: await delay(200)
BatchDelay       == 1000   \* getAudioFeatures (current): delayMs = 1000
BatchErrorDelay  == 2000   \* getAudioFeatures (current): await delay(2000)
ChunkDelay       == 400    \* addTracksToPlaylist, getAudioFeatures (earlier)

Revisions == {"current", "earlier"}

----------------------------------------------------------------------------
(* Helpers *)

Min(a, b) == IF a < b THEN a ELSE b

\* Array.prototype.slice(start, end) on a 1-based sequence
Slice(s, start, end) == SubSeq(s, start + 1, Min(end, Len(s)))

\* for (let i = 0; i < xs.length; i += size) chunks.push(xs.slice(i, i + size))
RECURSIVE ChunksFrom(_, _, _)
ChunksFrom(xs, size, from) ==
  IF from < Len(xs)
    THEN <<Slice(xs, from, from + size)>> \o ChunksFrom(xs, size, from + size)
    ELSE <<>>

\* mutant: the loop runs while i + size <= xs.length and drops a short tail
ChunkListFullOnly(xs, size) ==
  ChunksFrom(SubSeq(xs, 1, (Len(xs) \div size) * size), size, 0)

ChunkList(xs, size) == ChunksFrom(xs, size, 0)

\* the identifiers 1..n, in order
Ids(n) == [k \in 1..n |-> k]

\* the lengths of the inputs: up to MaxFull full pages/chunks plus a remainder
\* of 0, 1 or size - 1 items, or of 20 or 50 items (the 120 tracks and the 250
\* URIs of the documented scenarios)
Remainders(size) == {r \in {0, 1, 20, 50, size - 1} : r < size}
Sizes(size) == {q * size + r : q \in 0..MaxFull, r \in Remainders(size)}

----------------------------------------------------------------------------
(* The upstream service *)

\* an item of a paged collection: { added_at, track }
Item(k) == [added_at |-> k, track |-> k]
Collection(n) == [k \in 1..n |-> Item(k)]

\* the Retry-After header of a 429: absent, or a string of decimal digits
NoHeader == [present |-> FALSE, value |-> <<>>]
Header(v) == [present |-> TRUE, value |-> v]
RetryAfterHeaders == {NoHeader, Header(<<"0">>), Header(<<"1", "2">>)}

\* non-success statuses other than 429
ErrorStatuses == {401, 500}

FeatureModes == {"all", "some", "none", "noarray"}

\* whether the feature endpoint has features for a track
HasFeatures(id) ==
  CASE featMode = "all"  -> TRUE
    [] featMode = "some" -> id % 2 = 1
    [] OTHER             -> FALSE

NullFeature == [isNull |-> TRUE]
Feature(id) == [isNull |-> FALSE, id |-> id]

MeRequest == [kind |-> "me", method |-> "GET"]
PageRequest(kind, limit, off) ==
  [kind |-> kind, method |-> "GET", limit |-> limit, offset |-> off]
FeaturesRequest(ids) == [kind |-> "features", method |-> "GET", ids |-> ids]
AppendRequest(uris) == [kind |-> "append", method |-> "POST", uris |-> uris]
CreateRequest == [kind |-> "create", method |-> "POST"]

\* the playlist after the service has applied a request
Applied(req) ==
  IF req.kind = "append" THEN playlist \o req.uris ELSE playlist

\* the JSON body of a 2xx answer to a request
ServiceBody(req) ==
  CASE req.kind = "me" -> [id |-> "user"]
    [] req.kind \in {"tracks", "saved"} ->
         [items |-> Slice(collection, req.offset, req.offset + req.limit),
          total |-> Len(collection)]
    [] req.kind = "features" ->
         IF featMode = "noarray"
           THEN [hasArray |-> FALSE, audio_features |-> <<>>]
           ELSE [hasArray |-> TRUE,
                 audio_features |->
                   [k \in 1..Len(req.ids) |->
                      IF HasFeatures(req.ids[k]) THEN Feature(req.ids[k])
                                                 ELSE NullFeature]]
    [] req.kind = "append" -> [snapshot_id |-> Len(Applied(req))]
    [] req.kind = "create" -> [id |-> "playlist"]

OkAnswer == [type |-> "response", status |-> 200, retryAfter |-> NoHeader,
             applied |-> TRUE]
RateLimitAnswers ==
  {[type |-> "response", status |-> 429, retryAfter |-> h, applied |-> FALSE] :
     h \in RetryAfterHeaders}
\* a non-success status, or the network call throwing; a write may have been
\* applied by the service although its answer never arrives
FailureAnswers(req) ==
  {[type |-> "response", status |-> s, retryAfter |-> NoHeader,
    applied |-> FALSE] : s \in ErrorStatuses}
  \cup {[type |-> "network", status |-> 0, retryAfter |-> NoHeader,
         applied |-> a] :
          a \in IF req.method = "POST" THEN BOOLEAN ELSE {FALSE}}

----------------------------------------------------------------------------
(* SpotifyClient.fetch *)

DigitValue(c) ==
  CASE c = "0" -> 0 [] c = "1" -> 1 [] c = "2" -> 2 [] c = "3" -> 3
    [] c = "4" -> 4 [] c = "5" -> 5 [] c = "6" -> 6 [] c = "7" -> 7
    [] c = "8" -> 8 [] c = "9" -> 9

\* parseInt on a string of decimal digits
RECURSIVE ParseDigits(_, _)
ParseDigits(s, n) ==
  IF s = <<>> THEN n ELSE ParseDigits(Tail(s), n * 10 + DigitValue(Head(s)))

ParseInt(s) == ParseDigits(s, 0)

\* retryAfter ? ... : ...   (null and "" are falsy)
HeaderTruthy(h) == h.present /\ h.value # <<>>

\* mutant: the Retry-After header is ignored
RateLimitWaitIgnoresHeader(h, att) == (att + 1) * 2000

\* const waitTime = retryAfter ? parseInt(retryAfter) * 1000 : (attempt + 1) * 2000
RateLimitWait(h, att) ==
  IF HeaderTruthy(h) THEN ParseInt(h.value) * 1000 ELSE (att + 1) * 2000

\* mutant: a flat backoff
RetryDelayFlat(att) == 1000

\* await delay((attempt + 1) * 1000)
RetryDelay(att) == (att + 1) * 1000

\* mutant: attempt === retries
IsLastAttemptOffByOne(att) == att = Retries

\* if (attempt === retries - 1)
IsLastAttempt(att) == att = Retries - 1

\* mutant: attempt <= retries
LoopContinuesOneMore(att) == att <= Retries

\* for (...; attempt < retries; attempt++)
LoopContinues(att) == att < Retries

NoError == [name |-> "none"]
\* throw new Error(errorMessage) for a non-ok response, tagged with its attempt
HttpError(status, att) == [name |-> "SpotifyApiError", status |-> status, attempt |-> att + 1]
\* the rejection of the network call
NetworkError(att) == [name |-> "TypeError", status |-> 0, attempt |-> att + 1]
\* throw new Error("Max retries reached") after the loop
LoopExhaustedError == [name |-> "MaxRetriesReached"]

ErrorOf(a, att) ==
  IF a.type = "response" THEN HttpError(a.status, att) ELSE NetworkError(att)

\* what the catch block throws on the last attempt
FinalError(e) ==
  IF rev = "current" THEN [name |-> "MaxRetriesError", cause |-> e] ELSE e

NotSettled == [kind |-> "none", body |-> [none |-> TRUE], error |-> NoError]
Returned(body) == [kind |-> "returned", body |-> body, error |-> NoError]
Thrown(e) == [kind |-> "thrown", body |-> [none |-> TRUE], error |-> e]

\* mutant: the first iteration issues the request twice without awaiting
StartFetchTwice(req) ==
  /\ request' = req
  /\ attempt' = 0
  /\ sent' = <<req, req>>
  /\ answers' = <<>>
  /\ sleeps' = <<>>
  /\ calls' = Append(calls, req)
  /\ settled' = NotSettled
  /\ timer' = 0
  /\ pc' = "awaitResponse"

\* this.fetch(endpoint, options): the first iteration issues the request
StartFetch(req) ==
  /\ request' = req
  /\ attempt' = 0
  /\ sent' = <<req>>
  /\ answers' = <<>>
  /\ sleeps' = <<>>
  /\ calls' = Append(calls, req)
  /\ settled' = NotSettled
  /\ timer' = 0
  /\ pc' = "awaitResponse"

\* the answer is a 2xx: return response.json()
FetchOk ==
  /\ pc = "awaitResponse"
  /\ answers' = Append(answers, OkAnswer)
  /\ playlist' = Applied(request)
  /\ settled' = Returned(ServiceBody(request))
  /\ pc' = "settled"
  /\ UNCHANGED <<rev, op, input, collection, featMode, opVars, calls,
                 request, attempt, sent, sleeps, timer, result>>
  /\ UNCHANGED outsideClient

\* the answer is a 429: await delay(waitTime); continue
FetchRateLimited ==
  /\ pc = "awaitResponse"
  /\ \E a \in RateLimitAnswers :
       /\ answers' = Append(answers, a)
       /\ timer' = RateLimitWait(a.retryAfter, attempt)
  /\ pc' = "sleepRateLimit"
  /\ UNCHANGED <<rev, op, input, upVars, opVars, calls, request, attempt,
                 sent, sleeps, settled, result>>
  /\ UNCHANGED outsideClient

\* the answer is another non-success status or the network call throws:
\* the catch block rethrows on the last attempt and backs off otherwise
FetchFailed ==
  /\ pc = "awaitResponse"
  /\ \E a \in FailureAnswers(request) :
       /\ answers' = Append(answers, a)
       /\ playlist' = IF a.applied THEN Applied(request) ELSE playlist
       /\ IF IsLastAttempt(attempt)
            THEN /\ settled' = Thrown(FinalError(ErrorOf(a, attempt)))
                 /\ pc' = "settled"
                 /\ timer' = timer
            ELSE /\ timer' = RetryDelay(attempt)
                 /\ pc' = "sleepRetry"
                 /\ settled' = settled
  /\ UNCHANGED <<rev, op, input, collection, featMode, opVars, calls,
                 request, attempt, sent, sleeps, result>>
  /\ UNCHANGED outsideClient

\* the delay of a 429 or of the catch block is over: attempt++, and the loop
\* either issues the request again or ends in throw new Error("Max retries reached")
FetchDelayElapsed ==
  /\ pc \in {"sleepRateLimit", "sleepRetry"}
  /\ sleeps' = Append(sleeps, timer)
  /\ timer' = 0
  /\ attempt' = attempt + 1
  /\ IF LoopContinues(attempt + 1)
       THEN /\ sent' = Append(sent, request)
            /\ pc' = "awaitResponse"
            /\ settled' = settled
       ELSE /\ sent' = sent
            /\ settled' = Thrown(LoopExhaustedError)
            /\ pc' = "settled"
  /\ UNCHANGED <<rev, op, input, upVars, opVars, calls, request, answers,
                 result>>
  /\ UNCHANGED outsideClient

----------------------------------------------------------------------------
(* The public methods *)

NoResult == [kind |-> "none", value |-> <<>>, error |-> NoError]
Resolve(v) == [kind |-> "returned", value |-> v, error |-> NoError]
Reject(e) == [kind |-> "thrown", value |-> <<>>, error |-> e]

\* a call ends: its promise settles for the caller
Finish(r) ==
  /\ result' = r
  /\ pc' = "done"
  /\ timer' = 0

\* await delay(ms) between two pages or chunks
Pause(ms) ==
  /\ timer' = ms
  /\ pc' = "sleepBetween"
  /\ result' = result

\* getCurrentUser(): return this.fetch("/me")
GetCurrentUser ==
  /\ pc = "idle"
  /\ op' = "getCurrentUser"
  /\ StartFetch(MeRequest)
  /\ UNCHANGED <<rev, input, upVars, opVars, result>>
  /\ UNCHANGED outsideClient

UserSettled ==
  /\ pc = "settled"
  /\ op = "getCurrentUser"
  /\ Finish(IF settled.kind = "returned" THEN Resolve(<<settled.body>>)
                                         ELSE Reject(settled.error))
  /\ UNCHANGED <<rev, op, input, upVars, opVars, calls, fetchVars, settled>>
  /\ UNCHANGED outsideClient

\* mutant: response.items.length <= limit
IsLastPageInclusive(items, limit) == Len(items) <= limit

\* if (response.items.length < limit) break
IsLastPage(items, limit) == Len(items) < limit

\* mutant: offset += 2 * limit
NextOffsetSkipsPage(off, limit) == off + 2 * limit

\* offset += limit
NextOffset(off, limit) == off + limit

\* getAllSavedTracks: response.items.map(item => ({ added_at, track }))
FormatSaved(items) ==
  [k \in 1..Len(items) |-> [added_at |-> items[k].added_at, track |-> items[k].track]]

PageKind(o) == IF o = "getAllSavedTracks" THEN "saved" ELSE "tracks"

\* getAllPlaylistTracks(playlistId) / getAllSavedTracks(): up to the first page request;
\* the collection the call reads holds n items
GetAllTracks(o, n) ==
  /\ pc = "idle"
  /\ op' = o
  /\ collection' = Collection(n)
  /\ offset' = 0
  /\ acc' = <<>>
  /\ StartFetch(PageRequest(PageKind(o), PageLimit, 0))
  /\ UNCHANGED <<rev, input, playlist, featMode, chunks, i, failed, result>>
  /\ UNCHANGED outsideClient

GetAllPlaylistTracks == \E n \in Sizes(PageLimit) : GetAllTracks("getAllPlaylistTracks", n)

GetAllSavedTracks == \E n \in Sizes(PageLimit) : GetAllTracks("getAllSavedTracks", n)

\* the page request settled: push the items and stop after a short page, or
\* advance the offset and pause; a rejection of this.fetch rejects the call
PageSettled ==
  /\ pc = "settled"
  /\ op \in {"getAllPlaylistTracks", "getAllSavedTracks"}
  /\ IF settled.kind = "returned"
       THEN LET items == settled.body.items
                all == acc \o (IF op = "getAllSavedTracks" THEN FormatSaved(items)
                                                           ELSE items)
            IN /\ acc' = all
               /\ IF IsLastPage(items, PageLimit)
                    THEN /\ Finish(Resolve(all))
                         /\ offset' = offset
                    ELSE /\ offset' = NextOffset(offset, PageLimit)
                         /\ Pause(PageDelay)
       ELSE /\ Finish(Reject(settled.error))
            /\ UNCHANGED <<acc, offset>>
  /\ UNCHANGED <<rev, op, input, upVars, chunks, i, failed, calls, fetchVars, settled>>
  /\ UNCHANGED outsideClient

\* the pause between two pages is over: request the next page
PageDelayElapsed ==
  /\ pc = "sleepBetween"
  /\ op \in {"getAllPlaylistTracks", "getAllSavedTracks"}
  /\ StartFetch(PageRequest(PageKind(op), PageLimit, offset))
  /\ UNCHANGED <<rev, op, input, upVars, opVars, result>>
  /\ UNCHANGED outsideClient

\* const chunkSize = 50 (current) / i += 100 (earlier)
FeatureChunk == IF rev = "current" THEN FeatureChunkSize ELSE FeatureChunkSizeEarlier

\* mutant: the null items are kept
ValidFeaturesUnfiltered(fs) == fs

\* response.audio_features.filter(f => f !== null)
ValidFeatures(fs) == SelectSeq(fs, LAMBDA f : f # NullFeature)

\* mutant: if (i < chunks.length - 2)
HasNextChunkStopsEarly(k, cs) == k < Len(cs) - 2

\* if (i < chunks.length - 1)
HasNextChunk(k, cs) == k < Len(cs) - 1

\* the chunks are cut before the loop; without chunks the loop body never runs
\* and the call returns at once
StartChunks(cs, first, empty) ==
  /\ chunks' = cs
  /\ i' = 0
  /\ failed' = <<>>
  /\ IF cs = <<>>
       THEN /\ Finish(Resolve(empty))
            /\ UNCHANGED <<calls, fetchVars, settled>>
       ELSE /\ StartFetch(first)
            /\ result' = result

\* getAudioFeatures(trackIds): up to the first batch request
GetAudioFeatures ==
  /\ pc = "idle"
  /\ \E n \in Sizes(FeatureChunk), m \in FeatureModes :
       LET cs == ChunkList(Ids(n), FeatureChunk)
       IN /\ input' = Ids(n)
          /\ featMode' = m
          /\ StartChunks(cs, FeaturesRequest(cs[1]), <<>>)
  /\ op' = "getAudioFeatures"
  /\ acc' = <<>>
  /\ UNCHANGED <<rev, collection, playlist, offset>>
  /\ UNCHANGED outsideClient

TypeErrorNoArray == [name |-> "TypeError", status |-> 0, attempt |-> 0]

\* the batch request settled.  current: a body with an audio_features array adds
\* its non-null items, a rejection is caught and the loop goes on; earlier: the
\* filter is applied unguarded and a rejection rejects the call
FeaturesSettled ==
  /\ pc = "settled"
  /\ op = "getAudioFeatures"
  /\ LET ok == settled.kind = "returned"
         hasArray == ok /\ settled.body.hasArray
         all == IF hasArray THEN acc \o ValidFeatures(settled.body.audio_features)
                            ELSE acc
         pause == IF rev = "earlier" THEN ChunkDelay
                  ELSE IF ok THEN BatchDelay ELSE BatchErrorDelay
     IN /\ failed' = IF ok THEN failed ELSE Append(failed, i)
        /\ IF rev = "earlier" /\ ~ok
             THEN /\ Finish(Reject(settled.error))
                  /\ acc' = acc
             ELSE IF rev = "earlier" /\ ~hasArray
             THEN /\ Finish(Reject(TypeErrorNoArray))
                  /\ acc' = acc
             ELSE /\ acc' = all
                  /\ IF HasNextChunk(i, chunks) THEN Pause(pause)
                                                ELSE Finish(Resolve(all))
  /\ UNCHANGED <<rev, op, input, upVars, offset, chunks, i, calls, fetchVars, settled>>
  /\ UNCHANGED outsideClient

\* the pause between two batches is over: i++ and the next batch request
FeaturesDelayElapsed ==
  /\ pc = "sleepBetween"
  /\ op = "getAudioFeatures"
  /\ i' = i + 1
  /\ StartFetch(FeaturesRequest(chunks[i + 2]))
  /\ UNCHANGED <<rev, op, input, upVars, offset, acc, chunks, failed, result>>
  /\ UNCHANGED outsideClient

Success == <<[success |-> TRUE]>>

\* addTracksToPlaylist(playlistId, trackUris): up to the first append request
AddTracksToPlaylist ==
  /\ pc = "idle"
  /\ \E n \in Sizes(UriChunkSize) :
       LET cs == ChunkList(Ids(n), UriChunkSize)
       IN /\ input' = Ids(n)
          /\ StartChunks(cs, AppendRequest(cs[1]), Success)
  /\ op' = "addTracksToPlaylist"
  /\ UNCHANGED <<rev, upVars, offset, acc>>
  /\ UNCHANGED outsideClient

\* the append request settled: pause before the next chunk, return
\* { success: true } after the last; a rejection of this.fetch rejects the call
AppendSettled ==
  /\ pc = "settled"
  /\ op = "addTracksToPlaylist"
  /\ IF settled.kind = "returned"
       THEN /\ IF HasNextChunk(i, chunks) THEN Pause(ChunkDelay)
                                          ELSE Finish(Resolve(Success))
            /\ failed' = failed
       ELSE /\ Finish(Reject(settled.error))
            /\ failed' = Append(failed, i)
  /\ UNCHANGED <<rev, op, input, upVars, offset, acc, chunks, i, calls, fetchVars, settled>>
  /\ UNCHANGED outsideClient

\* the pause between two chunks is over: i++ and the next append request
ChunkDelayElapsed ==
  /\ pc = "sleepBetween"
  /\ op = "addTracksToPlaylist"
  /\ i' = i + 1
  /\ StartFetch(AppendRequest(chunks[i + 2]))
  /\ UNCHANGED <<rev, op, input, upVars, offset, acc, chunks, failed, result>>
  /\ UNCHANGED outsideClient

----------------------------------------------------------------------------
(* The filter/aggregate engine of PlaylistAnalyzer *)

\* an optional value: a property that is undefined, or one that holds v
Undefined == [defined |-> FALSE]
Def(v) == [defined |-> TRUE, value |-> v]

\* the tracks of the model: two tracks that differ on every axis.  energy,
\* danceability and valence are in hundredths
TrackIds == {1, 2}

SpotifyTrack(id) ==
  [id |-> id,
   popularity |-> IF id = 1 THEN 0 ELSE 80,
   duration_ms |-> IF id = 1 THEN 180000 ELSE 300000,
   explicit |-> id = 2,
   preview_url |-> IF id = 2 THEN Undefined ELSE Def(id)]

AudioFeatures(id) ==
  [defined |-> TRUE, id |-> id,
   tempo |-> IF id = 1 THEN 120 ELSE 130,
   key |-> IF id = 1 THEN 0 ELSE 5,
   mode |-> IF id = 1 THEN 1 ELSE 0,
   energy |-> IF id = 1 THEN 40 ELSE 80,
   danceability |-> IF id = 1 THEN 80 ELSE 40,
   valence |-> IF id = 1 THEN 40 ELSE 80]

\* ValidPlaylistTrack & { audioFeatures?: AudioFeatures }
AnnotatedTrack(id, withFeatures) ==
  [track |-> SpotifyTrack(id),
   audioFeatures |-> IF withFeatures THEN AudioFeatures(id) ELSE Undefined]

Catalogue == {AnnotatedTrack(id, w) : id \in TrackIds, w \in BOOLEAN}

TrackLists == UNION {[1..n -> Catalogue] : n \in 0..MaxTracks}

\* interface FilterOptions
FilterFields ==
  {"bpmMin", "bpmMax", "key", "energyMin", "energyMax", "danceabilityMin",
   "danceabilityMax", "valenceMin", "valenceMax", "popularityMin",
   "popularityMax", "durationMinMs", "durationMaxMs", "explicitOnly",
   "nonExplicitOnly"}

\* useState<FilterOptions>({})
EmptyFilters == [n \in FilterFields |-> Undefined]

\* the two values a field takes in the model: those of the two tracks
FieldValue(n, j) ==
  CASE n \in {"bpmMin", "bpmMax"} -> IF j = 1 THEN 120 ELSE 130
    [] n = "key" -> IF j = 1 THEN 0 ELSE 5
    [] n \in {"energyMin", "energyMax", "danceabilityMin", "danceabilityMax",
              "valenceMin", "valenceMax"} -> IF j = 1 THEN 40 ELSE 80
    [] n \in {"popularityMin", "popularityMax"} -> IF j = 1 THEN 0 ELSE 80
    [] n \in {"durationMinMs", "durationMaxMs"} -> IF j = 1 THEN 180000 ELSE 300000
    [] n \in {"explicitOnly", "nonExplicitOnly"} -> j = 1

\* the FilterOptions objects that set the fields S
CriteriaOn(S) ==
  {[n \in FilterFields |-> IF n \in S THEN Def(FieldValue(n, pick[n])) ELSE Undefined] :
     pick \in [S -> {1, 2}]}

Criteria ==
  UNION {CriteriaOn(S) : S \in {T \in SUBSET FilterFields : Cardinality(T) <= MaxCriteria}}

\* mutant: filters.xMin !== undefined && x <= filters.xMin
BelowMinOrEqual(x, bound) == bound.defined /\ x <= bound.value

\* filters.xMin !== undefined && x < filters.xMin
BelowMin(x, bound) == bound.defined /\ x < bound.value

\* filters.xMax !== undefined && x > filters.xMax
AboveMax(x, bound) == bound.defined /\ x > bound.value

\* filters.key !== undefined && features.key !== filters.key
KeyMismatch(key, wanted) == wanted.defined /\ key # wanted.value

\* mutant: filters.explicitOnly !== undefined
TruthyWhenDefined(flag) == flag.defined

\* filters.explicitOnly, filters.nonExplicitOnly as conditions
Truthy(flag) == flag.defined /\ flag.value

\* a feature criterion is set
FeatureCriterionSet(f) ==
  \E n \in {"bpmMin", "bpmMax", "key", "energyMin", "energyMax", "danceabilityMin",
            "danceabilityMax", "valenceMin", "valenceMax"} : f[n].defined

\* the audio features filters of one track
FeatureFilters(features, f) ==
  /\ ~BelowMin(features.tempo, f.bpmMin)
  /\ ~AboveMax(features.tempo, f.bpmMax)
  /\ ~KeyMismatch(features.key, f.key)
  /\ ~BelowMin(features.energy, f.energyMin)
  /\ ~AboveMax(features.energy, f.energyMax)
  /\ ~BelowMin(features.danceability, f.danceabilityMin)
  /\ ~AboveMax(features.danceability, f.danceabilityMax)
  /\ ~BelowMin(features.valence, f.valenceMin)
  /\ ~AboveMax(features.valence, f.valenceMax)

\* mutant: a track without features fails as soon as a feature criterion is set
PassesFeatureFiltersStrict(features, f) ==
  IF features.defined THEN FeatureFilters(features, f) ELSE ~FeatureCriterionSet(f)

\* mutant: a track without features is rejected
PassesFeatureFiltersNeedsFeatures(features, f) ==
  features.defined /\ FeatureFilters(features, f)

\* if (features) { ... }: only a track with features is tested
PassesFeatureFilters(features, f) ==
  IF features.defined THEN FeatureFilters(features, f) ELSE TRUE

\* the basic filters: popularity, duration, explicit
PassesBasicFilters(track, f) ==
  /\ ~BelowMin(track.popularity, f.popularityMin)
  /\ ~AboveMax(track.popularity, f.popularityMax)
  /\ ~BelowMin(track.duration_ms, f.durationMinMs)
  /\ ~AboveMax(track.duration_ms, f.durationMaxMs)
  /\ ~(Truthy(f.explicitOnly) /\ ~track.explicit)
  /\ ~(Truthy(f.nonExplicitOnly) /\ track.explicit)

\* the callback of tracks.filter: return true
Keeps(item, f) ==
  /\ PassesFeatureFilters(item.audioFeatures, f)
  /\ PassesBasicFilters(item.track, f)

\* const filteredTracks = useMemo(() => tracks.filter(...), [tracks, filters])
FilteredTracks(ts, f) == SelectSeq(ts, LAMBDA item : Keeps(item, f))

\* a / b, kept exact
Ratio(a, b) == [num |-> a, den |-> b]

\* the number n
Whole(n) == Ratio(n, 1)

\* item.audioFeatures?.tempo || 0
FeatureOrZero(item, field) ==
  IF item.audioFeatures.defined /\ item.audioFeatures[field] # 0
    THEN item.audioFeatures[field]
    ELSE 0

\* the reducer of filteredTracks.reduce
Accumulate(sum, item) ==
  [tempo |-> sum.tempo + FeatureOrZero(item, "tempo"),
   energy |-> sum.energy + FeatureOrZero(item, "energy"),
   danceability |-> sum.danceability + FeatureOrZero(item, "danceability"),
   valence |-> sum.valence + FeatureOrZero(item, "valence"),
   duration |-> sum.duration + item.track.duration_ms,
   popularity |-> sum.popularity + item.track.popularity]

\* filteredTracks.reduce(reducer, sum): the items are visited from left to
\* right, so the reduction of a list is that of its second half started from
\* the reduction of its first half; the running sum is a value (left = left
\* evaluates it) before the second half is visited
RECURSIVE Reduce(_, _)
Reduce(items, sum) ==
  IF items = <<>> THEN sum
  ELSE IF Len(items) = 1 THEN Accumulate(sum, items[1])
  ELSE LET half == Len(items) \div 2
           left == Reduce(SubSeq(items, 1, half), sum)
       IN IF left = left
            THEN Reduce(SubSeq(items, half + 1, Len(items)), left)
            ELSE sum

\* mutant: filteredTracks.some(() => true)
HasAudioFeaturesOfAny(items) == items # <<>>

\* filteredTracks.some(item => item.audioFeatures !== undefined)
HasAudioFeatures(items) == \E k \in 1..Len(items) : items[k].audioFeatures.defined

\* mutant: filteredTracks.length
TracksWithFeaturesCountsAll(items) == Len(items)

\* filteredTracks.filter(item => item.audioFeatures !== undefined).length
TracksWithFeatures(items) ==
  Len(SelectSeq(items, LAMBDA item : item.audioFeatures.defined))

\* the stats of an empty filtered list
EmptyStats ==
  [count |-> 0, avgTempo |-> Whole(0), avgEnergy |-> Whole(0),
   avgDanceability |-> Whole(0), avgValence |-> Whole(0), totalDuration |-> 0,
   avgPopularity |-> Whole(0), hasAudioFeatures |-> FALSE]

\* tracksWithFeatures > 0 ? sum / tracksWithFeatures : 0
FeatureMean(sum, n) == IF n > 0 THEN Ratio(sum, n) ELSE Whole(0)

\* const stats = useMemo(() => ..., [filteredTracks])
Stats(items) ==
  IF Len(items) = 0 THEN EmptyStats
  ELSE LET sum == Reduce(items, [tempo |-> 0, energy |-> 0, danceability |-> 0,
                                 valence |-> 0, duration |-> 0, popularity |-> 0])
           n == TracksWithFeatures(items)
       IN [count |-> Len(items),
           avgTempo |-> FeatureMean(sum.tempo, n),
           avgEnergy |-> FeatureMean(sum.energy, n),
           avgDanceability |-> FeatureMean(sum.danceability, n),
           avgValence |-> FeatureMean(sum.valence, n),
           totalDuration |-> sum.duration,
           avgPopularity |-> Ratio(sum.popularity, Len(items)),
           hasAudioFeatures |-> HasAudioFeatures(items)]

\* a call of handleCreatePlaylist whose CreatePlaylistButton has unmounted:
\* the state updates of its handleSubmit have no effect
Orphaned(fs) == [k \in 1..Len(fs) |-> [fs[k] EXCEPT !.orphan = TRUE]]

\* {filteredTracks.length > 0 && <CreatePlaylistButton ... />}: without
\* filtered tracks the button is not rendered and its state is lost
ButtonRendered(items) ==
  IF items = <<>>
    THEN /\ isModalOpen' = FALSE
         /\ name' = ""
         /\ error' = ""
         /\ flights' = Orphaned(flights)
         /\ UNCHANGED <<isCreatingPlaylist, posts, opened>>
    ELSE UNCHANGED createVars

\* a render of the component with the given tracks and filters: both memos
\* and the button
Memos(ts, f) ==
  /\ filteredTracks' = FilteredTracks(ts, f)
  /\ stats' = Stats(FilteredTracks(ts, f))
  /\ rendered' = TRUE
  /\ ButtonRendered(FilteredTracks(ts, f))

\* the component renders for the first time
Render ==
  /\ ~rendered
  /\ Memos(tracks, filters)
  /\ UNCHANGED <<tracks, filters, loaderVars, outsideComponent>>

----------------------------------------------------------------------------
(* The filter panel and the loading of features *)

\* disabled={!hasAudioFeatures}, with hasAudioFeatures={stats.hasAudioFeatures}
BpmInputsDisabled == ~stats.hasAudioFeatures

\* what the user types: nothing, or a value that lies between the two tracks
Typed(n) ==
  CASE n \in {"bpmMin", "bpmMax"} -> {"", "125"}
    [] n \in {"popularityMin", "popularityMax"} -> {"", "50"}
    [] n \in {"durationMinMs", "durationMaxMs"} -> {"", "4"}

\* Number(e.target.value) of the typed values
Number(text) ==
  CASE text = "125" -> 125
    [] text = "50" -> 50
    [] text = "4" -> 4

\* e.target.value ? Number(e.target.value) : undefined
InputValues(n) == {IF text # "" THEN Def(Number(text)) ELSE Undefined : text \in Typed(n)}

\* e.target.value ? Number(e.target.value) * 60000 : undefined
DurationValues(n) ==
  {IF text # "" THEN Def(Number(text) * 60000) ELSE Undefined : text \in Typed(n)}

\* onChange(next): setFilters and the render that follows
SetFilters(next) ==
  /\ rendered
  /\ filters' = next
  /\ Memos(tracks, next)
  /\ UNCHANGED <<tracks, loaderVars, outsideComponent>>

BpmMinChanged ==
  /\ ~BpmInputsDisabled
  /\ \E v \in InputValues("bpmMin") : SetFilters([filters EXCEPT !.bpmMin = v])

BpmMaxChanged ==
  /\ ~BpmInputsDisabled
  /\ \E v \in InputValues("bpmMax") : SetFilters([filters EXCEPT !.bpmMax = v])

PopularityMinChanged ==
  \E v \in InputValues("popularityMin") : SetFilters([filters EXCEPT !.popularityMin = v])

PopularityMaxChanged ==
  \E v \in InputValues("popularityMax") : SetFilters([filters EXCEPT !.popularityMax = v])

DurationMinChanged ==
  \E v \in DurationValues("durationMinMs") : SetFilters([filters EXCEPT !.durationMinMs = v])

DurationMaxChanged ==
  \E v \in DurationValues("durationMaxMs") : SetFilters([filters EXCEPT !.durationMaxMs = v])

\* mutant: the select sets the flag of the chosen option and leaves the
\* other flag as it was
ExplicitSelectedAlone(f, value) ==
  [f EXCEPT !.explicitOnly = IF value = "explicit" THEN Def(TRUE) ELSE f.explicitOnly,
            !.nonExplicitOnly = IF value = "clean" THEN Def(TRUE) ELSE f.nonExplicitOnly]

\* { ...filters, explicitOnly: value === "explicit", nonExplicitOnly: value === "clean" }
ExplicitSelected(f, value) ==
  [f EXCEPT !.explicitOnly = Def(value = "explicit"),
            !.nonExplicitOnly = Def(value = "clean")]

\* the select: value === "explicit", value === "clean"
ExplicitChanged ==
  \E value \in {"all", "explicit", "clean"} :
    SetFilters(ExplicitSelected(filters, value))

\* Reset all: setFilters({})
ResetAll == SetFilters(EmptyFilters)

\* setTracks(prevTracks => prevTracks.map(...)) with the features of a batch,
\* and the render that follows
FeaturesLoaded ==
  /\ rendered
  /\ \E found \in SUBSET TrackIds :
       LET next == [k \in 1..Len(tracks) |->
                      IF tracks[k].track.id \in found
                        THEN [tracks[k] EXCEPT !.audioFeatures = AudioFeatures(tracks[k].track.id)]
                        ELSE tracks[k]]
       IN /\ next # tracks
          /\ tracks' = next
          /\ Memos(next, filters)
  /\ UNCHANGED <<filters, loaderVars, outsideComponent>>

----------------------------------------------------------------------------
(* The loading effect of PlaylistAnalyzer *)

BatchSize     == 50    \* fetchAudioFeatures: const batchSize = 50
LoaderDelay   == 1000  \* fetchAudioFeatures: setTimeout(resolve, 1000)
AnalysisDelay == 500   \* analyzeBPMBatch: setTimeout(resolve, 500)

LoaderRevisions == {"features", "bpm"}

\* useState<string | null>(null) and the messages of setLoadingError
NoLoadingError   == "null"
FailedToFetch    == "Failed to fetch audio features"
NoFeaturesInBody == "No audio features returned from API"
NoPreviewUrls    == "No preview URLs available for BPM analysis"
CaughtError      == "Error"

\* Math.round(a / b) for a >= 0 and b > 0
Round(a, b) == (2 * a + b) \div (2 * b)

\* mutant: the progress counts the batches before this one
ProgressOfPrevious(k, n) == Round(k * 100, n)

\* Math.round(((i + 1) / batches.length) * 100)
Progress(k, n) == Round((k + 1) * 100, n)

\* initialTracks.filter(track => !track.audioFeatures && track.track.id)
TracksWithoutFeatures(ts) == SelectSeq(ts, LAMBDA t : ~t.audioFeatures.defined)

\* tracksWithoutFeatures.map(track => track.track.id)
TrackIdsOf(ts) == [k \in 1..Len(ts) |-> ts[k].track.id]

\* tracksWithoutFeatures.filter(track => track.track.preview_url)
TracksToAnalyze(ts) == SelectSeq(ts, LAMBDA t : t.track.preview_url.defined)

\* the events of the trace
Request(k) == [e |-> "request", batch |-> k]
Analysis(k) == [e |-> "analysis", batch |-> k]
Delayed(ms) == [e |-> "delay", ms |-> ms]

\* the features the route returns for the given ids
FeaturesFor(ids) == [k \in 1..Len(ids) |-> AudioFeatures(ids[k])]

\* the bodies of an OK response to a batch: features for every id, for the
\* first id only, for none, or a body without an audioFeatures array
Bodies(batch) ==
  {[audioFeatures |-> Def(FeaturesFor(batch))],
   [audioFeatures |-> Def(FeaturesFor(<<Head(batch)>>))],
   [audioFeatures |-> Def(<<>>)],
   [audioFeatures |-> Undefined]}

\* mutant: the map keeps only the features of this batch
MergeFeaturesForgetful(prev, fs) ==
  [k \in 1..Len(prev) |->
     LET hits == SelectSeq(fs, LAMBDA f : f.id = prev[k].track.id)
     IN [prev[k] EXCEPT !.audioFeatures = IF hits # <<>> THEN Head(hits) ELSE Undefined]]

\* prevTracks.map(track => { const feature = data.audioFeatures.find(f =>
\* f.id === track.track.id); return feature ? {...track, audioFeatures:
\* feature} : track })
MergeFeatures(prev, fs) ==
  [k \in 1..Len(prev) |->
     LET hits == SelectSeq(fs, LAMBDA f : f.id = prev[k].track.id)
     IN IF hits # <<>> THEN [prev[k] EXCEPT !.audioFeatures = Head(hits)] ELSE prev[k]]

\* the audioFeatures built from a BPM analysis: only the tempo is known
BpmFeatures(id, tempo) ==
  [defined |-> TRUE, id |-> id, tempo |-> tempo, key |-> -1, mode |-> -1,
   energy |-> 0, danceability |-> 0, valence |-> 0]

\* prevTracks.map(track => { const result = results.get(track.track.id);
\* if (result && result.success) return {...track, audioFeatures: {...}};
\* return track })
MergeResults(prev, res) ==
  [k \in 1..Len(prev) |->
     LET id == prev[k].track.id
     IN IF id \in DOMAIN res /\ res[id].success
          THEN [prev[k] EXCEPT !.audioFeatures = BpmFeatures(id, res[id].tempo)]
          ELSE prev[k]]

\* results.set(id, result)
SetResult(res, id, r) == [x \in DOMAIN res \cup {id} |-> IF x = id THEN r ELSE res[x]]

\* what analyzeBPM returns: the rounded tempo, or the failure it caught
AnalysisResults(id) ==
  {[success |-> TRUE, tempo |-> AudioFeatures(id).tempo], [success |-> FALSE, tempo |-> 0]}

\* a state update that leaves tracks alone: the memos keep their values
SameTracks == UNCHANGED <<tracks, filteredTracks, stats, rendered, createVars>>

\* mutant: the loop ends without setIsLoadingFeatures(false)
LoopDoneKeepsIndicator ==
  /\ lpc' = "finished"
  /\ bi' = bi + 1
  /\ UNCHANGED <<isLoadingFeatures, trace>>

\* the loop is over: setIsLoadingFeatures(false)
LoopDone ==
  /\ lpc' = "finished"
  /\ bi' = bi + 1
  /\ isLoadingFeatures' = FALSE
  /\ UNCHANGED trace

\* the next batch is requested
NextRequest ==
  /\ lpc' = "awaitResponse"
  /\ bi' = bi + 1
  /\ trace' = Append(trace, Request(bi + 1))
  /\ UNCHANGED isLoadingFeatures

\* mutant: the progress is updated and the delay skipped
AfterTryNoDelay ==
  /\ loadingProgress' = Progress(bi, Len(batches))
  /\ IF bi < Len(batches) - 1 THEN NextRequest ELSE LoopDone

\* the statements after the try statement: setLoadingProgress, then the delay
\* unless this was the last batch
AfterTry ==
  /\ loadingProgress' = Progress(bi, Len(batches))
  /\ IF bi < Len(batches) - 1
       THEN lpc' = "delay" /\ UNCHANGED <<bi, isLoadingFeatures, trace>>
       ELSE LoopDone

\* continue: the for statement goes to its next iteration
Continue ==
  /\ UNCHANGED loadingProgress
  /\ IF bi + 1 < Len(batches) THEN NextRequest ELSE LoopDone

\* useEffect: fetchAudioFeatures() up to its first fetch
FetchAudioFeatures ==
  /\ loaderRev = "features"
  /\ lpc = "effect"
  /\ LET trackIds == TrackIdsOf(TracksWithoutFeatures(initialTracks))
     IN IF Len(trackIds) = 0
          THEN /\ lpc' = "finished"
               /\ UNCHANGED <<batches, bi, isLoadingFeatures, loadingProgress, trace>>
          ELSE /\ isLoadingFeatures' = TRUE
               /\ loadingProgress' = 0
               /\ batches' = ChunkList(trackIds, BatchSize)
               /\ bi' = 0
               /\ lpc' = "awaitResponse"
               /\ trace' = <<Request(0)>>
  /\ SameTracks
  /\ UNCHANGED <<loaderRev, initialTracks, results, loadingError, filters,
                 outsideComponent>>

\* await fetch("/api/audio-features", ...) settles
BatchResponded ==
  /\ loaderRev = "features"
  /\ lpc = "awaitResponse"
  /\ \E outcome \in {"ok", "notOk", "rejected"} :
       CASE outcome = "ok" ->
              /\ lpc' = "awaitJson"
              /\ UNCHANGED <<bi, isLoadingFeatures, loadingProgress, loadingError, trace>>
         [] outcome = "notOk" ->
              /\ lpc' = "awaitText"
              /\ UNCHANGED <<bi, isLoadingFeatures, loadingProgress, loadingError, trace>>
         [] outcome = "rejected" ->
              /\ loadingError' = CaughtError
              /\ AfterTry
  /\ SameTracks
  /\ UNCHANGED <<loaderRev, initialTracks, batches, results, filters, outsideComponent>>

\* await response.text() settles, in the branch if (!response.ok)
BatchTextRead ==
  /\ loaderRev = "features"
  /\ lpc = "awaitText"
  /\ \/ /\ loadingError' = FailedToFetch
        /\ Continue
     \/ /\ loadingError' = CaughtError
        /\ AfterTry
  /\ SameTracks
  /\ UNCHANGED <<loaderRev, initialTracks, batches, results, filters, outsideComponent>>

\* await response.json() settles
BatchJsonParsed ==
  /\ loaderRev = "features"
  /\ lpc = "awaitJson"
  /\ \/ \E body \in Bodies(batches[bi + 1]) :
          IF body.audioFeatures.defined
            THEN /\ tracks' = MergeFeatures(tracks, body.audioFeatures.value)
                 /\ Memos(MergeFeatures(tracks, body.audioFeatures.value), filters)
                 /\ UNCHANGED loadingError
            ELSE /\ loadingError' = NoFeaturesInBody
                 /\ SameTracks
     \/ /\ loadingError' = CaughtError
        /\ SameTracks
  /\ AfterTry
  /\ UNCHANGED <<loaderRev, initialTracks, batches, results, filters, outsideComponent>>

\* the delay between two batches is over: the next batch is requested
BatchDelayElapsed ==
  /\ loaderRev = "features"
  /\ lpc = "delay"
  /\ lpc' = "awaitResponse"
  /\ bi' = bi + 1
  /\ trace' = trace \o <<Delayed(LoaderDelay), Request(bi + 1)>>
  /\ SameTracks
  /\ UNCHANGED <<loaderRev, initialTracks, batches, results, isLoadingFeatures,
                 loadingProgress, loadingError, filters, outsideComponent>>

\* useEffect: analyzeBPM() up to the first analysis of analyzeBPMBatch
AnalyzeBPM ==
  /\ loaderRev = "bpm"
  /\ lpc = "effect"
  /\ LET without == TracksWithoutFeatures(initialTracks)
         toAnalyze == TrackIdsOf(TracksToAnalyze(without))
     IN CASE Len(without) = 0 ->
               /\ lpc' = "finished"
               /\ UNCHANGED <<batches, isLoadingFeatures, loadingProgress,
                              loadingError, trace>>
          [] Len(without) > 0 /\ Len(toAnalyze) = 0 ->
               /\ lpc' = "finished"
               /\ loadingProgress' = 0
               /\ loadingError' = NoPreviewUrls
               /\ isLoadingFeatures' = FALSE
               /\ UNCHANGED <<batches, trace>>
          [] Len(toAnalyze) > 0 ->
               /\ isLoadingFeatures' = TRUE
               /\ loadingProgress' = 0
               /\ batches' = toAnalyze
               /\ lpc' = "awaitAnalysis"
               /\ trace' = <<Analysis(0)>>
               /\ UNCHANGED loadingError
  /\ SameTracks
  /\ UNCHANGED <<loaderRev, initialTracks, bi, results, filters, outsideComponent>>

\* analyzeBPMBatch: await analyzeBPM(previewUrl) settles; after the last
\* track the batch returns, the results are merged and the indicator cleared
TrackAnalyzed ==
  /\ loaderRev = "bpm"
  /\ lpc = "awaitAnalysis"
  /\ \E r \in AnalysisResults(batches[bi + 1]) :
       LET res == SetResult(results, batches[bi + 1], r)
       IN /\ results' = res
          /\ loadingProgress' = Progress(bi, Len(batches))
          /\ IF bi < Len(batches) - 1
               THEN /\ lpc' = "delay"
                    /\ SameTracks
                    /\ UNCHANGED <<bi, isLoadingFeatures>>
               ELSE /\ tracks' = MergeResults(tracks, res)
                    /\ Memos(MergeResults(tracks, res), filters)
                    /\ lpc' = "finished"
                    /\ bi' = bi + 1
                    /\ isLoadingFeatures' = FALSE
  /\ UNCHANGED <<loaderRev, initialTracks, batches, loadingError, trace, filters,
                 outsideComponent>>

\* analyzeBPMBatch: the delay between two analyses is over
AnalysisDelayElapsed ==
  /\ loaderRev = "bpm"
  /\ lpc = "delay"
  /\ lpc' = "awaitAnalysis"
  /\ bi' = bi + 1
  /\ trace' = trace \o <<Delayed(AnalysisDelay), Analysis(bi + 1)>>
  /\ SameTracks
  /\ UNCHANGED <<loaderRev, initialTracks, batches, results, isLoadingFeatures,
                 loadingProgress, loadingError, filters, outsideComponent>>

----------------------------------------------------------------------------
(* The route POST /api/playlists/create *)

Sessions == {"none", "noAccessToken", "signedIn"}

\* the bodies of the requests: not JSON, or JSON with or without a name and
\* with the given trackUris
RouteSizes == {q * UriChunkSize + r : q \in 0..MaxFull, r \in {0, 1}}

RouteBodies ==
  {[json |-> FALSE, name |-> FALSE, trackUris |-> <<>>]}
  \cup {[json |-> TRUE, name |-> nm, trackUris |-> Ids(n)] :
          nm \in BOOLEAN, n \in RouteSizes}

NoResponse == [status |-> 0, body |-> "none"]
Unauthorized == [status |-> 401, body |-> "Unauthorized"]
InvalidBody == [status |-> 400, body |-> "Invalid request body"]
FailedToCreate == [status |-> 500, body |-> "Failed to create playlist"]
Created == [status |-> 200, body |-> "playlist"]

\* return NextResponse.json(...)
Respond(r) ==
  /\ routeResponse' = r
  /\ routePc' = "responded"

\* spotify.createPlaylist(...): return this.fetch(`/users/${userId}/playlists`)
CreatePlaylist ==
  /\ op' = "createPlaylist"
  /\ StartFetch(CreateRequest)
  /\ UNCHANGED <<rev, input, upVars, opVars, result>>

\* spotify.addTracksToPlaylist(playlist.id, trackUris): up to the first append
AddTracks(uris) ==
  /\ op' = "addTracksToPlaylist"
  /\ input' = uris
  /\ StartChunks(ChunkList(uris, UriChunkSize),
                 AppendRequest(ChunkList(uris, UriChunkSize)[1]), Success)
  /\ UNCHANGED <<rev, upVars, offset, acc>>

\* POST(request) up to the call of createPlaylist: the session, the body
PostPlaylistsCreate ==
  /\ routePc = "idle"
  /\ pc = "idle"
  /\ \E session \in Sessions, body \in RouteBodies :
       /\ routeBody' = body
       /\ CASE session # "signedIn" ->
                 /\ Respond(Unauthorized)
                 /\ UNCHANGED clientVars
            [] session = "signedIn" /\ ~body.json ->
                 /\ Respond(FailedToCreate)
                 /\ UNCHANGED clientVars
            [] session = "signedIn" /\ body.json
                 /\ (~body.name \/ Len(body.trackUris) = 0) ->
                 /\ Respond(InvalidBody)
                 /\ UNCHANGED clientVars
            [] OTHER ->
                 /\ routePc' = "createPlaylist"
                 /\ CreatePlaylist
                 /\ UNCHANGED routeResponse
  /\ UNCHANGED <<componentVars, outsideRoute>>

\* await spotify.createPlaylist(...) settles: addTracksToPlaylist is called,
\* or the catch block answers
PlaylistCreated ==
  /\ routePc = "createPlaylist"
  /\ pc = "settled"
  /\ IF settled.kind = "returned"
       THEN /\ routePc' = "addTracks"
            /\ AddTracks(routeBody.trackUris)
            /\ UNCHANGED routeResponse
       ELSE /\ Respond(FailedToCreate)
            /\ Finish(Reject(settled.error))
            /\ UNCHANGED <<rev, op, input, upVars, opVars, calls, fetchVars, settled>>
  /\ UNCHANGED <<routeBody, componentVars, outsideRoute>>

\* await spotify.addTracksToPlaylist(...) settles: the handler answers
TracksAdded ==
  /\ routePc = "addTracks"
  /\ pc = "done"
  /\ Respond(IF result.kind = "returned" THEN Created ELSE FailedToCreate)
  /\ UNCHANGED <<routeBody, clientVars, componentVars, outsideRoute>>

----------------------------------------------------------------------------
(* The creation of a playlist: handleCreatePlaylist and CreatePlaylistButton *)

\* the number of playlists the user creates
MaxPosts == 2

\* the names the user types
Names == {"", " ", "Mix"}

\* name.trim()
Trim(text) == IF text = " " THEN "" ELSE text

NoFormError   == ""
EnterAName    == "Please enter a playlist name"
CreateFailed  == "Failed to create playlist. Please try again."

\* the button is rendered
ButtonMounted == rendered /\ Len(filteredTracks) > 0

\* mutant: the buttons stay enabled while a playlist is being created
CreateNeverDisabled == FALSE

\* disabled={isLoading}, with isLoading={isCreatingPlaylist}
CreateDisabled == isCreatingPlaylist

\* filteredTracks.map(item => item.track.uri)
TrackUris(items) == [k \in 1..Len(items) |-> items[k].track.id]

\* a call of handleCreatePlaylist leaves the list of running calls
Landed(k) == [j \in 1..Len(flights) - 1 |-> IF j < k THEN flights[j] ELSE flights[j + 1]]

\* onClick={() => setIsModalOpen(true)}
OpenModal ==
  /\ ButtonMounted
  /\ ~CreateDisabled
  /\ isModalOpen' = TRUE
  /\ UNCHANGED <<isCreatingPlaylist, flights, posts, opened, name, error>>
  /\ UNCHANGED <<analyzerVars, loaderVars, outsideComponent>>

\* onChange={(e) => setName(e.target.value)}
NameChanged ==
  /\ ButtonMounted
  /\ isModalOpen
  /\ ~CreateDisabled
  /\ \E text \in Names : name' = text
  /\ UNCHANGED <<isCreatingPlaylist, flights, posts, opened, isModalOpen, error>>
  /\ UNCHANGED <<analyzerVars, loaderVars, outsideComponent>>

\* Cancel: onClick={() => setIsModalOpen(false)}
CancelModal ==
  /\ ButtonMounted
  /\ isModalOpen
  /\ ~CreateDisabled
  /\ isModalOpen' = FALSE
  /\ UNCHANGED <<isCreatingPlaylist, flights, posts, opened, name, error>>
  /\ UNCHANGED <<analyzerVars, loaderVars, outsideComponent>>

\* handleSubmit, and handleCreatePlaylist up to its fetch
HandleSubmit ==
  /\ ButtonMounted
  /\ isModalOpen
  /\ ~CreateDisabled
  /\ Trim(name) # "" => Len(posts) < MaxPosts
  /\ IF Trim(name) = ""
       THEN /\ error' = EnterAName
            /\ UNCHANGED <<isCreatingPlaylist, flights, posts>>
       ELSE /\ error' = NoFormError
            /\ isCreatingPlaylist' = TRUE
            /\ flights' = Append(flights, [at |-> "response", orphan |-> FALSE])
            /\ posts' = Append(posts, [name |-> name, trackUris |-> TrackUris(filteredTracks)])
  /\ UNCHANGED <<opened, isModalOpen, name>>
  /\ UNCHANGED <<analyzerVars, loaderVars, outsideComponent>>

\* the call throws: finally setIsCreatingPlaylist(false), and the catch block
\* of handleSubmit sets the error
CreateThrows(k) ==
  /\ isCreatingPlaylist' = FALSE
  /\ flights' = Landed(k)
  /\ error' = IF flights[k].orphan THEN error ELSE CreateFailed
  /\ UNCHANGED <<posts, opened, isModalOpen, name>>

\* await fetch("/api/playlists/create", ...) settles
CreateResponded ==
  /\ \E k \in 1..Len(flights) :
       /\ flights[k].at = "response"
       /\ \/ /\ flights' = [flights EXCEPT ![k].at = "json"]
             /\ UNCHANGED <<isCreatingPlaylist, posts, opened, isModalOpen, name, error>>
          \/ CreateThrows(k)
  /\ UNCHANGED <<analyzerVars, loaderVars, outsideComponent>>

\* await response.json() settles: window.open, return data, finally
\* setIsCreatingPlaylist(false); handleSubmit closes the modal
CreateJsonParsed ==
  /\ \E k \in 1..Len(flights) :
       /\ flights[k].at = "json"
       /\ \/ /\ opened' = opened + 1
             /\ isCreatingPlaylist' = FALSE
             /\ flights' = Landed(k)
             /\ isModalOpen' = IF flights[k].orphan THEN isModalOpen ELSE FALSE
             /\ name' = IF flights[k].orphan THEN name ELSE ""
             /\ UNCHANGED <<posts, error>>
          \/ /\ CreateThrows(k)
  /\ UNCHANGED <<analyzerVars, loaderVars, outsideComponent>>

----------------------------------------------------------------------------
(* The session of src/lib/auth.ts and the pages that read it *)

\* the clock stops here
MaxNow == 3

\* refreshedTokens.expires_in, account.expires_at - now: the lifetime of an
\* access token, in seconds
ExpiresIn == 1

RefreshAccessTokenError == "RefreshAccessTokenError"

\* no session cookie; auth() returns null
NoToken == [none |-> TRUE]
NoSession == [none |-> TRUE]

\* the token NextAuth hands to the jwt callback on sign-in
FreshToken ==
  [accessToken |-> Undefined, accessTokenExpires |-> Undefined,
   error |-> Undefined, id |-> Undefined]

\* Date.now(), in milliseconds
DateNow(t) == t * 1000

\* jwt, initial sign in: { ...extendedToken, accessToken, accessTokenExpires, id }
InitialSignIn(token, account, t) ==
  [token EXCEPT !.accessToken = account,
                !.accessTokenExpires = Def((t + ExpiresIn) * 1000),
                !.id = Def("user")]

\* extendedToken.accessTokenExpires && Date.now() < extendedToken.accessTokenExpires
NotExpired(token, t) ==
  /\ token.accessTokenExpires.defined
  /\ token.accessTokenExpires.value # 0
  /\ DateNow(t) < token.accessTokenExpires.value

\* the bodies of the OK responses of the token endpoint: with an access token
\* and its lifetime, or without them
TokenBodies ==
  {[access_token |-> Def("A"), expires_in |-> Def(ExpiresIn)],
   [access_token |-> Undefined, expires_in |-> Undefined]}

\* mutant: a successful refresh clears the error
RefreshedWithoutError(token, body, t) ==
  [token EXCEPT !.accessToken = body.access_token,
                !.accessTokenExpires =
                   IF body.expires_in.defined
                     THEN Def(DateNow(t) + body.expires_in.value * 1000)
                     ELSE Undefined,
                !.error = Undefined]

\* refreshAccessToken, response OK: { ...token, accessToken, accessTokenExpires,
\* refreshToken }; Date.now() + undefined * 1000 is NaN, which is falsy
Refreshed(token, body, t) ==
  [token EXCEPT !.accessToken = body.access_token,
                !.accessTokenExpires =
                   IF body.expires_in.defined
                     THEN Def(DateNow(t) + body.expires_in.value * 1000)
                     ELSE Undefined]

\* refreshAccessToken, catch: { ...token, error: "RefreshAccessTokenError" }
RefreshFailed(token) == [token EXCEPT !.error = Def(RefreshAccessTokenError)]

\* the session callback
Session(token) ==
  IF token = NoToken
    THEN NoSession
    ELSE [user |-> [id |-> IF token.id.defined THEN token.id.value ELSE ""],
          accessToken |-> token.accessToken,
          error |-> token.error]

Paths == {"/", "/dashboard", "/playlist/[id]"}

Rendered == [render |-> TRUE]
Redirect(to) == [render |-> FALSE, to |-> to]

\* Home
Home(session) ==
  IF session # NoSession THEN Redirect("/dashboard") ELSE Rendered

\* DashboardPage, up to createSpotifyClient; the page or its error page renders
DashboardPage(session) ==
  IF session = NoSession THEN Redirect("/")
  ELSE IF session.error = Def(RefreshAccessTokenError) THEN Redirect("/")
  ELSE IF ~session.accessToken.defined THEN Redirect("/")
  ELSE Rendered

\* PlaylistPage, up to createSpotifyClient; the page or its error page renders
PlaylistPage(session) ==
  IF session = NoSession THEN Redirect("/")
  ELSE IF session.error = Def(RefreshAccessTokenError) THEN Redirect("/")
  ELSE IF ~session.accessToken.defined THEN Redirect("/")
  ELSE Rendered

\* the page function of a path
Page(path, session) ==
  CASE path = "/" -> Home(session)
    [] path = "/dashboard" -> DashboardPage(session)
    [] path = "/playlist/[id]" -> PlaylistPage(session)

\* the page function after its await auth(): it renders, or it redirects and
\* the browser requests the target
PageDecides(session) ==
  IF Page(url, session).render
    THEN pagePc' = "rendered" /\ url' = url
    ELSE pagePc' = "auth" /\ url' = Page(url, session).to

\* the browser requests a page
PageRequested ==
  /\ pagePc \in {"idle", "rendered"}
  /\ \E path \in Paths : url' = path
  /\ pagePc' = "auth"
  /\ UNCHANGED <<cookie, now, jwtIn, jwtOut>>
  /\ UNCHANGED <<clientVars, componentVars, routeVars, featuresVars>>

\* the sign-in button of Home, signIn("spotify", { callbackUrl: "/dashboard" }):
\* the jwt callback with account and user, then the request of /dashboard
SignedIn ==
  /\ pagePc = "rendered"
  /\ url = "/"
  /\ \E account \in {Def("A"), Undefined} :
       /\ jwtIn' = FreshToken
       /\ jwtOut' = InitialSignIn(FreshToken, account, now)
       /\ cookie' = InitialSignIn(FreshToken, account, now)
  /\ url' = "/dashboard"
  /\ pagePc' = "auth"
  /\ UNCHANGED now
  /\ UNCHANGED <<clientVars, componentVars, routeVars, featuresVars>>

\* await auth(): no cookie, or the jwt callback up to its return or up to the
\* fetch of refreshAccessToken
AuthCalled ==
  /\ pagePc = "auth"
  /\ IF cookie = NoToken
       THEN /\ PageDecides(NoSession)
            /\ UNCHANGED <<jwtIn, jwtOut>>
       ELSE /\ jwtIn' = cookie
            /\ IF NotExpired(cookie, now)
                 THEN /\ jwtOut' = cookie
                      /\ PageDecides(Session(cookie))
                 ELSE /\ jwtOut' = NoToken
                      /\ pagePc' = "refresh"
                      /\ url' = url
  /\ UNCHANGED <<cookie, now>>
  /\ UNCHANGED <<clientVars, componentVars, routeVars, featuresVars>>

\* the token of the jwt callback becomes the session; the cookie is rewritten
\* where the caller may set cookies
TokenDerived(token) ==
  /\ jwtOut' = token
  /\ cookie' \in {cookie, token}
  /\ PageDecides(Session(token))

\* the fetch of refreshAccessToken settles: an OK response, or a response
\* that is not OK or a rejection
RefreshSettled ==
  /\ pagePc = "refresh"
  /\ \/ \E body \in TokenBodies : TokenDerived(Refreshed(jwtIn, body, now))
     \/ TokenDerived(RefreshFailed(jwtIn))
  /\ UNCHANGED <<now, jwtIn>>
  /\ UNCHANGED <<clientVars, componentVars, routeVars, featuresVars>>

\* time passes
Tick ==
  /\ now < MaxNow
  /\ now' = now + 1
  /\ UNCHANGED <<cookie, url, pagePc, jwtIn, jwtOut>>
  /\ UNCHANGED <<clientVars, componentVars, routeVars, featuresVars>>

----------------------------------------------------------------------------
(* The route POST /api/audio-features *)

\* if (trackIds.length > 50)
MaxIds == 50

\* the requests: a session, and a body that is not JSON, or JSON without an
\* array of track ids, or JSON with one
FeaturesRequests ==
  {[session |-> session, json |-> json, array |-> FALSE, trackIds |-> <<>>] :
      session \in Sessions, json \in BOOLEAN}
  \cup {[session |-> session, json |-> TRUE, array |-> TRUE, trackIds |-> ids] :
      session \in Sessions,
      ids \in UNION {[1..n -> TrackIds] : n \in 0..MaxTracks}
              \cup {Ids(MaxIds), Ids(MaxIds + 1)}}

NoFeaturesRequest == [session |-> "none", json |-> FALSE, array |-> FALSE, trackIds |-> <<>>]
NoSpotifyResponse == [ok |-> FALSE]

InvalidTrackIds == [status |-> 400, body |-> "Invalid request body. trackIds array is required."]
TooManyTracks   == [status |-> 400, body |-> "Too many tracks. Maximum 50 tracks per request."]
FailedToFetchFeatures == [status |-> 500, body |-> "Failed to fetch audio features"]

\* mutant: the route asks for the last track of the request
LastTrackId(ids) == ids[Len(ids)]

\* const testTrackId = trackIds[0]
TestTrackId(ids) == ids[1]

\* fetch(`https://api.spotify.com/v1/audio-analysis/${testTrackId}`)
AnalysisRequest(id) == [endpoint |-> "/audio-analysis", id |-> id]

\* the texts the service answers with: the analysis of the requested track,
\* JSON without a track, text that is not JSON
AnalysisTexts(req) ==
  {[json |-> TRUE, track |-> Def([tempo |-> 100 + req.id, key |-> req.id, mode |-> 1,
                                  time_signature |-> 4, loudness |-> 0 - req.id,
                                  duration |-> req.id])],
   [json |-> TRUE, track |-> Undefined],
   [json |-> FALSE, track |-> Undefined]}

\* JSON.parse(rawText), or { error: 'Failed to parse JSON', rawText }
RawData(text) == IF text.json THEN text ELSE [json |-> TRUE, track |-> Undefined]

\* audioFeature ? [audioFeature] : [], with the conversion of the analysis
ExtractedFeatures(ok, rawData, testTrackId) ==
  IF ok /\ rawData.track.defined
    THEN <<[id |-> testTrackId,
            tempo |-> rawData.track.value.tempo,
            key |-> rawData.track.value.key,
            mode |-> rawData.track.value.mode,
            time_signature |-> rawData.track.value.time_signature,
            loudness |-> rawData.track.value.loudness,
            duration_ms |-> Round(rawData.track.value.duration * 1000, 1)]>>
    ELSE <<>>

\* NextResponse.json({ success, audioFeatures, debug })
FeaturesAnswer(ok, fs) == [status |-> 200, body |-> [success |-> ok, audioFeatures |-> fs]]

\* the handler returns
FeaturesRespond(r) ==
  /\ featuresResponse' = r
  /\ featuresPc' = "responded"

\* POST(request) up to its fetch
PostAudioFeatures ==
  /\ featuresPc \in {"idle", "responded"}
  /\ \E req \in FeaturesRequests :
       /\ featuresRequest' = req
       /\ CASE req.session # "signedIn" ->
                 /\ FeaturesRespond(Unauthorized)
                 /\ spotifyRequests' = <<>>
            [] req.session = "signedIn" /\ ~req.json ->
                 /\ FeaturesRespond(FailedToFetchFeatures)
                 /\ spotifyRequests' = <<>>
            [] req.session = "signedIn" /\ req.json
                 /\ (~req.array \/ Len(req.trackIds) = 0) ->
                 /\ FeaturesRespond(InvalidTrackIds)
                 /\ spotifyRequests' = <<>>
            [] req.session = "signedIn" /\ req.json /\ req.array
                 /\ Len(req.trackIds) > MaxIds ->
                 /\ FeaturesRespond(TooManyTracks)
                 /\ spotifyRequests' = <<>>
            [] OTHER ->
                 /\ spotifyRequests' = <<AnalysisRequest(TestTrackId(req.trackIds))>>
                 /\ featuresPc' = "awaitFetch"
                 /\ UNCHANGED featuresResponse
  /\ UNCHANGED spotifyResponse
  /\ UNCHANGED <<clientVars, componentVars, routeVars, pageVars>>

\* await fetch(...) settles: a response, or a rejection caught as fetchError
AnalysisResponded ==
  /\ featuresPc = "awaitFetch"
  /\ \/ /\ \E ok \in BOOLEAN : spotifyResponse' = [ok |-> ok]
        /\ featuresPc' = "awaitText"
        /\ UNCHANGED featuresResponse
     \/ /\ FeaturesRespond(FeaturesAnswer(FALSE, <<>>))
        /\ UNCHANGED spotifyResponse
  /\ UNCHANGED <<featuresRequest, spotifyRequests>>
  /\ UNCHANGED <<clientVars, componentVars, routeVars, pageVars>>

\* await spotifyResponse.text() settles: the text is parsed and the feature
\* extracted, or the rejection is caught as fetchError
AnalysisTextRead ==
  /\ featuresPc = "awaitText"
  /\ \/ \E text \in AnalysisTexts(spotifyRequests[1]) :
          FeaturesRespond(FeaturesAnswer(spotifyResponse.ok,
            ExtractedFeatures(spotifyResponse.ok, RawData(text),
                              TestTrackId(featuresRequest.trackIds))))
     \/ FeaturesRespond(FeaturesAnswer(FALSE, <<>>))
  /\ UNCHANGED <<featuresRequest, spotifyResponse, spotifyRequests>>
  /\ UNCHANGED <<clientVars, componentVars, routeVars, pageVars>>

----------------------------------------------------------------------------
(* The specification *)

\* createSpotifyClient(accessToken): a client of revision r on which no call
\* has been made
InitClient(r) ==
  /\ rev = r
  /\ pc = "idle"
  /\ op = "none"
  /\ input = <<>>
  /\ collection = <<>>
  /\ playlist = <<>>
  /\ featMode = "all"
  /\ offset = 0
  /\ acc = <<>>
  /\ chunks = <<>>
  /\ i = 0
  /\ failed = <<>>
  /\ calls = <<>>
  /\ request = MeRequest
  /\ attempt = 0
  /\ sent = <<>>
  /\ answers = <<>>
  /\ sleeps = <<>>
  /\ timer = 0
  /\ settled = NotSettled
  /\ result = NoResult

\* the loading effect of the given revision has yet to run
EffectPending(r) ==
  /\ loaderRev = r
  /\ lpc = "effect"
  /\ batches = <<>>
  /\ bi = 0
  /\ results = <<>>
  /\ isLoadingFeatures = FALSE
  /\ loadingProgress = 0
  /\ loadingError = NoLoadingError
  /\ trace = <<>>

\* the component has no loading effect
NoEffect ==
  /\ loaderRev = "features"
  /\ initialTracks = <<>>
  /\ lpc = "none"
  /\ batches = <<>>
  /\ bi = 0
  /\ results = <<>>
  /\ isLoadingFeatures = FALSE
  /\ loadingProgress = 0
  /\ loadingError = NoLoadingError
  /\ trace = <<>>

\* no request to POST /api/playlists/create has arrived
RouteIdle ==
  /\ routePc = "idle"
  /\ routeBody = [json |-> FALSE, name |-> FALSE, trackUris |-> <<>>]
  /\ routeResponse = NoResponse

\* no page has been requested and nobody is signed in
NoPage ==
  /\ cookie = NoToken
  /\ now = 0
  /\ url = "/"
  /\ pagePc = "idle"
  /\ jwtIn = NoToken
  /\ jwtOut = NoToken

\* no request of POST /api/audio-features
FeaturesIdle ==
  /\ featuresRequest = NoFeaturesRequest
  /\ spotifyResponse = NoSpotifyResponse
  /\ featuresPc = "idle"
  /\ spotifyRequests = <<>>
  /\ featuresResponse = NoResponse

\* no playlist is being created and the modal is closed
ButtonIdle ==
  /\ isCreatingPlaylist = FALSE
  /\ flights = <<>>
  /\ posts = <<>>
  /\ opened = 0
  /\ isModalOpen = FALSE
  /\ name = ""
  /\ error = ""

\* no PlaylistAnalyzer is mounted
NotMounted ==
  /\ NoEffect
  /\ ButtonIdle
  /\ tracks = <<>>
  /\ filters = EmptyFilters
  /\ filteredTracks = <<>>
  /\ stats = EmptyStats
  /\ rendered = FALSE

\* the current client
Init == InitClient("current") /\ NotMounted /\ RouteIdle /\ NoPage /\ FeaturesIdle

\* the current client or the earlier revision of the same file
InitRevisions == (\E r \in Revisions : InitClient(r)) /\ NotMounted /\ RouteIdle /\ NoPage /\ FeaturesIdle

\* PlaylistAnalyzer is handed tracks and criteria and has yet to render
InitFilter ==
  /\ InitClient("current")
  /\ RouteIdle /\ NoPage /\ FeaturesIdle
  /\ ButtonIdle
  /\ NoEffect
  /\ tracks \in TrackLists
  /\ filters \in Criteria
  /\ filteredTracks = <<>>
  /\ stats = EmptyStats
  /\ rendered = FALSE

\* PlaylistAnalyzer is mounted on its tracks: no filter is set
InitAnalyzer ==
  /\ InitClient("current")
  /\ RouteIdle /\ NoPage /\ FeaturesIdle
  /\ ButtonIdle
  /\ NoEffect
  /\ tracks \in TrackLists
  /\ filters = EmptyFilters
  /\ filteredTracks = FilteredTracks(tracks, filters)
  /\ stats = Stats(FilteredTracks(tracks, filters))
  /\ rendered = TRUE

Next ==
  \/ GetCurrentUser
  \/ GetAllPlaylistTracks
  \/ GetAllSavedTracks
  \/ GetAudioFeatures
  \/ AddTracksToPlaylist
  \/ FetchOk
  \/ FetchRateLimited
  \/ FetchFailed
  \/ FetchDelayElapsed
  \/ UserSettled
  \/ PageSettled
  \/ PageDelayElapsed
  \/ FeaturesSettled
  \/ FeaturesDelayElapsed
  \/ AppendSettled
  \/ ChunkDelayElapsed

\* the current client
Spec == Init /\ [][Next]_vars

\* every revision of the client
SpecRevisions == InitRevisions /\ [][Next]_vars

NextFilter == Render

\* the filter and the statistics as functions of tracks and criteria
SpecFilter == InitFilter /\ [][NextFilter]_vars

NextAnalyzer ==
  \/ BpmMinChanged
  \/ BpmMaxChanged
  \/ PopularityMinChanged
  \/ PopularityMaxChanged
  \/ DurationMinChanged
  \/ DurationMaxChanged
  \/ ExplicitChanged
  \/ ResetAll
  \/ FeaturesLoaded

\* the mounted analyzer with its filter panel
SpecAnalyzer == InitAnalyzer /\ [][NextAnalyzer]_vars

\* the numbers of tracks handed to the feature loader: up to MaxFull full
\* batches plus a remainder of 0 or 1 track
LoaderSizes == {q * BatchSize + r : q \in 0..MaxFull, r \in {0, 1}}

\* a playlist of n distinct tracks; those in have came with their features
Playlist(n, have) == [k \in 1..n |-> AnnotatedTrack(k, k \in have)]

\* the tracks prop of the revision that fetches features in batches
FeatureLoaderTracks ==
  UNION {{Playlist(n, have) : have \in {{}, {1}, {n}, 1..n}} : n \in LoaderSizes}

\* the tracks prop of the revision that analyses previews: the page attaches
\* features by track id, so two entries of one track are alike
BpmLoaderTracks ==
  {ts \in TrackLists :
     \A j, k \in 1..Len(ts) : ts[j].track.id = ts[k].track.id => ts[j] = ts[k]}

\* PlaylistAnalyzer has rendered on its tracks prop and its effect is pending
InitLoader ==
  /\ InitClient("current")
  /\ RouteIdle /\ NoPage /\ FeaturesIdle
  /\ ButtonIdle
  /\ \E r \in LoaderRevisions : EffectPending(r)
  /\ initialTracks \in IF loaderRev = "features" THEN FeatureLoaderTracks
                                                  ELSE BpmLoaderTracks
  /\ tracks = initialTracks
  /\ filters = EmptyFilters
  /\ filteredTracks = FilteredTracks(tracks, filters)
  /\ stats = Stats(FilteredTracks(tracks, filters))
  /\ rendered = TRUE

\* a step of the loading effect; at most one of them is possible at a time
LoaderStep ==
  \/ FetchAudioFeatures
  \/ BatchResponded
  \/ BatchTextRead
  \/ BatchJsonParsed
  \/ BatchDelayElapsed
  \/ AnalyzeBPM
  \/ TrackAnalyzed
  \/ AnalysisDelayElapsed

NextLoader ==
  \/ LoaderStep
  \/ BpmMinChanged
  \/ BpmMaxChanged
  \/ ResetAll

\* the loading effect of the mounted analyzer, while the user edits filters
SpecLoader == InitLoader /\ [][NextLoader]_vars

\* the loading effect on its own: the effect runs, every request settles and
\* every timer fires
SpecLoaderFair == InitLoader /\ [][LoaderStep]_vars /\ WF_vars(LoaderStep)

\* the server: a client made for the request, no component
InitRoute == InitClient("current") /\ NotMounted /\ RouteIdle /\ NoPage /\ FeaturesIdle

NextRoute ==
  \/ PostPlaylistsCreate
  \/ PlaylistCreated
  \/ TracksAdded
  \/ FetchOk
  \/ FetchRateLimited
  \/ FetchFailed
  \/ FetchDelayElapsed
  \/ AppendSettled
  \/ ChunkDelayElapsed

\* one request to POST /api/playlists/create
SpecRoute == InitRoute /\ [][NextRoute]_vars

\* the user at the Create Playlist button, while the explicit filter changes
NextButton ==
  \/ OpenModal
  \/ NameChanged
  \/ CancelModal
  \/ HandleSubmit
  \/ CreateResponded
  \/ CreateJsonParsed
  \/ ExplicitChanged
  \/ ResetAll

\* the track lists of the pages on which playlists are created: the audio
\* features play no part in the creation
ButtonTracks ==
  UNION {[1..n -> {AnnotatedTrack(id, FALSE) : id \in TrackIds}] : n \in 0..MaxTracks}

InitButton ==
  /\ InitAnalyzer
  /\ tracks \in ButtonTracks

\* the mounted analyzer with its Create Playlist button
SpecButton == InitButton /\ [][NextButton]_vars

InitPages == InitClient("current") /\ NotMounted /\ RouteIdle /\ NoPage /\ FeaturesIdle

\* the steps of a page function
PageStep == AuthCalled \/ RefreshSettled

NextPages ==
  \/ PageRequested
  \/ SignedIn
  \/ PageStep
  \/ Tick

\* the pages: every await of a page function settles
SpecPages == InitPages /\ [][NextPages]_vars /\ WF_vars(PageStep)

InitFeatures == InitClient("current") /\ NotMounted /\ RouteIdle /\ NoPage /\ FeaturesIdle

NextFeatures ==
  \/ PostAudioFeatures
  \/ AnalysisResponded
  \/ AnalysisTextRead

\* the route POST /api/audio-features, one request after the other
SpecFeatures == InitFeatures /\ [][NextFeatures]_vars

----------------------------------------------------------------------------
(* Vocabulary of the claims *)

CeilDiv(n, d) == (n + d - 1) \div d

Paging == op \in {"getAllPlaylistTracks", "getAllSavedTracks"}

IsRateLimit(a) == a.type = "response" /\ a.status = 429
IsOk(a) == a.type = "response" /\ a.status = 200
IsFailure(a) == ~IsOk(a) /\ ~IsRateLimit(a)

Statuses == [j \in 1..Len(answers) |-> answers[j].status]

\* the number of seconds a Retry-After header of the model states
HeaderSeconds(h) ==
  CASE h.value = <<"0">> -> 0
    [] h.value = <<"1", "2">> -> 12

\* the wait the claims state for a 429 that answered request number j
StatedWait(a, j) ==
  IF a.retryAfter.present THEN HeaderSeconds(a.retryAfter) * 1000 ELSE 2000 * j

\* the concatenation of a sequence of sequences, in order
RECURSIVE Concat(_)
Concat(cs) == IF cs = <<>> THEN <<>> ELSE Head(cs) \o Concat(Tail(cs))

----------------------------------------------------------------------------
(* C1 *)

\* C1: when getAllPlaylistTracks or getAllSavedTracks returns, its value is the
\* upstream collection itself: the same N items in upstream order, none missing
\* and none duplicated, for every N of the model (0, 50 and 51 among them).
C1_AllTracksInOrder ==
  (Paging /\ pc = "done" /\ result.kind = "returned") =>
     /\ result.value = collection
     /\ Len(result.value) = Len(collection)
     /\ \A j \in 1..Len(collection) : result.value[j] = Item(j)

C1_Witness ==
  /\ op = "getAllSavedTracks"
  /\ pc = "done"
  /\ result.kind = "returned"
  /\ Len(collection) = PageLimit + 1
  /\ Len(calls) = 2

----------------------------------------------------------------------------
(* C2 *)

----------------------------------------------------------------------------
(* C3 *)

\* the wait of a 429 is Retry-After x 1000 ms, or 2000 ms x the attempt number
C3_WaitIsStated ==
  /\ pc = "sleepRateLimit" =>
       /\ IsRateLimit(answers[Len(answers)])
       /\ timer = StatedWait(answers[Len(answers)], Len(answers))
  /\ \A j \in 1..Len(sleeps) :
       IsRateLimit(answers[j]) => sleeps[j] = StatedWait(answers[j], j)

\* nothing is sent for the call before the wait of a 429 is over
C3_SilentWhileWaiting ==
  /\ Len(sent) <= Len(sleeps) + 1
  /\ pc \in {"sleepRateLimit", "sleepRetry"} =>
       Len(sent) = Len(answers) /\ Len(sleeps) = Len(answers) - 1

\* 429 once, then a success: the call succeeds after exactly two requests
C3_OneRetry ==
  (pc = "settled" /\ Statuses = <<429, 200>>) =>
     /\ settled.kind = "returned"
     /\ Len(sent) = 2
     /\ sent[2] = sent[1]
     /\ Len(sleeps) = 1

\* the 429s, among the first n answers, whose wait is over were followed by
\* the same request again
C3_ResentAfter(n) ==
  \A j \in 1..Min(n, Len(sleeps)) :
     IsRateLimit(answers[j]) => (Len(sent) > j /\ sent[j + 1] = request)

----------------------------------------------------------------------------
(* C4 *)

NonRateLimitFailures == Cardinality({j \in 1..Len(answers) : IsFailure(answers[j])})

----------------------------------------------------------------------------
(* C5 *)

\* C5: a 401 is not retried: once a request of the call has been answered 401,
\* no wait is started and no further request is issued; the call fails.
C5_UnauthorizedNotRetried ==
  \A j \in 1..Len(answers) :
     answers[j].status = 401 =>
        /\ Len(sent) = j
        /\ pc # "sleepRetry"
        /\ settled.kind = "thrown"

----------------------------------------------------------------------------
(* C6 *)

FetchRunning == pc \in {"awaitResponse", "sleepRateLimit", "sleepRetry"}

\* the steps a running fetch can still take
FetchRank ==
  CASE pc = "awaitResponse" -> 2 * (Retries - attempt)
    [] pc \in {"sleepRateLimit", "sleepRetry"} -> 2 * (Retries - attempt) - 1
    [] OTHER -> 0

C6_Bounded ==
  /\ Len(sent) <= 3
  /\ FetchRank >= 0
  /\ FetchRunning => ENABLED (FetchOk \/ FetchRateLimited \/ FetchFailed \/ FetchDelayElapsed)
  /\ pc = "settled" =>
       /\ settled.kind \in {"returned", "thrown"}
       /\ settled.kind = "returned" <=> IsOk(answers[Len(answers)])
       /\ settled.kind = "returned" => settled.error = NoError
       /\ settled.kind = "thrown" => settled.error # NoError

\* C6: every fetch call terminates.  It issues at most 3 requests; while it
\* runs, a step is always possible and every step lowers the number of steps
\* it can still take; and it settles by returning the body of a successful
\* response or by throwing, a failure never being returned as a value.
C6_FetchTerminates ==
  /\ []C6_Bounded
  /\ [][FetchRunning => FetchRank' < FetchRank]_vars

C6_Witness ==
  /\ pc = "settled"
  /\ settled.kind = "returned"
  /\ Statuses = <<500, 429, 200>>

----------------------------------------------------------------------------
(* C7 *)

\* C7: whenever addTracksToPlaylist reports success, the tracks appended to the
\* upstream playlist are exactly the caller's URI sequence: same order, nothing
\* missing, nothing appended twice, also when append attempts failed (an error
\* response, or a response lost after the service applied the append) and were
\* retried by fetch.
C7_AppendedExactlyOnce ==
  (op = "addTracksToPlaylist" /\ pc = "done" /\ result.kind = "returned") =>
     playlist = input

----------------------------------------------------------------------------
(* C8 *)

\* the chunks are the consecutive slices of the input of the given size:
\* ceil(N/size) of them, each of size items except a shorter, non-empty last
\* one, and one after the other they spell the input
IsPartition(cs, xs, size) ==
  /\ Len(cs) = CeilDiv(Len(xs), size)
  /\ \A k \in 1..Len(cs) :
       Len(cs[k]) = IF k < Len(cs) THEN size ELSE Len(xs) - (Len(cs) - 1) * size
  /\ \A k \in 1..Len(cs) : Len(cs[k]) >= 1 /\ Len(cs[k]) <= size
  /\ Concat(cs) = xs

\* C8: for N URIs addTracksToPlaylist cuts the input into ceil(N/100)
\* consecutive slices, each of 100 URIs except a shorter last one, and hands
\* them to fetch one by one in input order: the append requests made so far are
\* always the first slices, a call that succeeds has made exactly ceil(N/100)
\* of them (none for N = 0), and every HTTP request of one append carries that
\* slice.
C8_AppendChunks ==
  op = "addTracksToPlaylist" =>
     /\ IsPartition(chunks, input, 100)
     /\ Len(calls) <= Len(chunks)
     /\ \A k \in 1..Len(calls) : calls[k] = AppendRequest(chunks[k])
     /\ \A k \in 1..Len(sent) : sent[k] = calls[Len(calls)]
     /\ pc # "done" => Len(calls) = i + 1
     /\ (pc = "done" /\ result.kind = "returned") =>
          /\ Len(calls) = CeilDiv(Len(input), 100)
          /\ result.value = Success

C8_Witness ==
  /\ op = "addTracksToPlaylist"
  /\ pc = "done"
  /\ result.kind = "returned"
  /\ Len(input) = 250
  /\ Len(calls) = 3
  /\ Len(calls[1].uris) = 100
  /\ Len(calls[2].uris) = 100
  /\ Len(calls[3].uris) = 50

----------------------------------------------------------------------------
(* C9 *)

StatedChunkSize == IF rev = "current" THEN 50 ELSE 100

----------------------------------------------------------------------------
(* C10 *)

\* what getAudioFeatures reports when the service has no features for any
\* requested track: every item of every batch is null
NoFeaturesReport == Resolve(ValidFeatures(<<NullFeature, NullFeature>>))

\* C10: getAudioFeatures reports the failure of its feature requests with an
\* upstream error differently from the service having no features for the
\* requested tracks.
C10_NoFeaturesIsNotFailure ==
  /\ (op = "getAudioFeatures" /\ pc = "done" /\ featMode = "none" /\ failed = <<>>) =>
       result = NoFeaturesReport
  /\ (op = "getAudioFeatures" /\ pc = "done" /\ chunks # <<>>
        /\ Len(failed) = Len(chunks)) =>
       result # NoFeaturesReport

----------------------------------------------------------------------------
(* C11 *)

\* C11: when a page request of getAllPlaylistTracks or getAllSavedTracks fails
\* for good (this.fetch throws after its retries), the call still delivers to
\* its caller the items of the pages it had fetched before.
C11_PartialDelivered ==
  (Paging /\ pc = "done" /\ settled.kind = "thrown") =>
     /\ result.kind = "returned"
     /\ result.value = acc

----------------------------------------------------------------------------
(* C12 *)

\* the HTTP requests of the running this.fetch that have no answer yet
InFlight == Len(sent) - Len(answers)

MultiRequest ==
  op \in {"getAllPlaylistTracks", "getAllSavedTracks", "getAudioFeatures",
          "addTracksToPlaylist"}

\* at most one HTTP request is unanswered, and only while the call awaits it
C12_AtMostOne ==
  MultiRequest =>
     /\ InFlight \in {0, 1}
     /\ InFlight = 1 <=> pc = "awaitResponse"

\* an HTTP request is issued only when none is unanswered; the request for the
\* next page or chunk is handed to this.fetch only once the this.fetch of the
\* previous one has settled, all its attempts answered and its delays over
C12_IssuedAfterAnswer ==
  (MultiRequest' /\ (sent' # sent \/ calls' # calls)) =>
     /\ InFlight = 0
     /\ timer' = 0
     /\ (calls' # calls) =>
          /\ Len(calls') = Len(calls) + 1
          /\ calls # <<>> =>
               /\ pc = "sleepBetween"
               /\ settled # NotSettled
               /\ Len(answers) = Len(sent)
               /\ Len(sent) >= 1

\* C12: within one call of getAllPlaylistTracks, getAllSavedTracks,
\* getAudioFeatures or addTracksToPlaylist at most one HTTP request is in flight
\* at any time, and the request for page or chunk k+1 is issued only after the
\* answer to page or chunk k, retries included, has been received.
C12_Sequential == []C12_AtMostOne /\ [][C12_IssuedAfterAnswer]_vars

C12_Witness ==
  /\ op = "getAudioFeatures"
  /\ Len(calls) = 3
  /\ Len(failed) = 1
  /\ pc = "awaitResponse"
  /\ Len(sent) = 2
  /\ InFlight = 1

----------------------------------------------------------------------------
(* C13 *)

\* C13: getAllPlaylistTracks requests pages of limit 50 at offsets 0, 50, 100,
\* ... one after the other, every page before the last holds 50 items and the
\* last one fewer, so a call that returns for N items has made exactly
\* floor(N/50)+1 page requests, the last of which returned N mod 50 items
\* (an empty page when N is a multiple of 50).
C13_PageRequests ==
  op = "getAllPlaylistTracks" =>
     /\ \A k \in 1..Len(calls) : calls[k] = PageRequest("tracks", 50, 50 * (k - 1))
     /\ Len(calls) <= (Len(collection) \div 50) + 1
     /\ pc = "awaitResponse" => Len(acc) = 50 * (Len(calls) - 1)
     /\ (pc = "done" /\ result.kind = "returned") =>
          /\ Len(calls) = (Len(collection) \div 50) + 1
          /\ Len(settled.body.items) = Len(collection) % 50
          /\ Len(settled.body.items) < 50
          /\ Len(acc) = 50 * (Len(calls) - 1) + Len(settled.body.items)

C13_Witness ==
  /\ op = "getAllPlaylistTracks"
  /\ pc = "done"
  /\ result.kind = "returned"
  /\ Len(collection) = 120
  /\ Len(calls) = 3
  /\ calls[3].offset = 100
  /\ Len(settled.body.items) = 20

C13_WitnessEmptyLastPage ==
  /\ op = "getAllPlaylistTracks"
  /\ pc = "done"
  /\ result.kind = "returned"
  /\ Len(collection) = 100
  /\ Len(calls) = 3
  /\ settled.body.items = <<>>

----------------------------------------------------------------------------
(* C19 *)

\* whether the this.fetch of the k-th chunk rejected
ChunkFailed(k) == \E j \in 1..Len(failed) : failed[j] = k - 1

\* the features the service holds for the given ids, in the order of the ids
RECURSIVE FeaturesOf(_)
FeaturesOf(ids) ==
  IF ids = <<>> THEN <<>>
  ELSE (IF HasFeatures(Head(ids)) THEN <<Feature(Head(ids))>> ELSE <<>>)
         \o FeaturesOf(Tail(ids))

\* C19: getAudioFeatures of the current client never rejects: whichever chunk
\* requests fail, every chunk is handed to this.fetch exactly once, in input
\* order, and the call resolves with the features the service holds for the
\* chunks whose request succeeded, chunk after chunk (the empty list when all
\* fail).
C19_NeverRejects ==
  op = "getAudioFeatures" =>
     /\ result.kind # "thrown"
     /\ \A k \in 1..Len(calls) : calls[k] = FeaturesRequest(chunks[k])
     /\ \A j \in 1..Len(failed) : failed[j] < Len(calls)
     /\ pc = "done" =>
          /\ result.kind = "returned"
          /\ Len(calls) = Len(chunks)
          /\ Concat(chunks) = input
          /\ result.value =
               Concat([k \in 1..Len(chunks) |->
                         IF ChunkFailed(k) THEN <<>> ELSE FeaturesOf(chunks[k])])
          /\ Len(failed) = Len(chunks) => result.value = <<>>

C19_Witness ==
  /\ op = "getAudioFeatures"
  /\ pc = "done"
  /\ Len(chunks) = 3
  /\ failed = <<1>>
  /\ featMode = "some"
  /\ Len(result.value) = 35

C19_WitnessAllFail ==
  /\ op = "getAudioFeatures"
  /\ pc = "done"
  /\ Len(chunks) = 2
  /\ failed = <<0, 1>>
  /\ result = Resolve(<<>>)

----------------------------------------------------------------------------
(* Vocabulary of the filter claims *)

Elems(xs) == {xs[k] : k \in 1..Len(xs)}

WithFeatures(item) == item.audioFeatures.defined

Featureless(items) == SelectSeq(items, LAMBDA item : ~WithFeatures(item))

Featured(items) == SelectSeq(items, LAMBDA item : WithFeatures(item))

\* lo <= x <= hi, an absent bound not constraining
InRange(x, lo, hi) == (lo.defined => x >= lo.value) /\ (hi.defined => x <= hi.value)

\* the toggle is on
Wanted(flag) == flag = Def(TRUE)

\* the track satisfies the popularity, duration and explicit constraints
SatisfiesBasic(track, f) ==
  /\ InRange(track.popularity, f.popularityMin, f.popularityMax)
  /\ InRange(track.duration_ms, f.durationMinMs, f.durationMaxMs)
  /\ Wanted(f.explicitOnly) => track.explicit
  /\ Wanted(f.nonExplicitOnly) => ~track.explicit

\* the features satisfy the tempo, key, energy, danceability and valence
\* constraints
SatisfiesFeature(features, f) ==
  /\ InRange(features.tempo, f.bpmMin, f.bpmMax)
  /\ f.key.defined => features.key = f.key.value
  /\ InRange(features.energy, f.energyMin, f.energyMax)
  /\ InRange(features.danceability, f.danceabilityMin, f.danceabilityMax)
  /\ InRange(features.valence, f.valenceMin, f.valenceMax)

\* the ranges of the criteria: the value of the track, the two bounds
Ranges(item, f) ==
  {<<item.track.popularity, f.popularityMin, f.popularityMax>>,
   <<item.track.duration_ms, f.durationMinMs, f.durationMaxMs>>}
  \cup (IF WithFeatures(item)
          THEN {<<item.audioFeatures.tempo, f.bpmMin, f.bpmMax>>,
                <<item.audioFeatures.energy, f.energyMin, f.energyMax>>,
                <<item.audioFeatures.danceability, f.danceabilityMin, f.danceabilityMax>>,
                <<item.audioFeatures.valence, f.valenceMin, f.valenceMax>>}
          ELSE {})

RECURSIVE Total(_)
Total(xs) == IF xs = <<>> THEN 0 ELSE Head(xs) + Total(Tail(xs))

----------------------------------------------------------------------------
(* C14 *)

----------------------------------------------------------------------------
(* C15 *)

\* C15: the ranges are inclusive at both ends: a track whose value equals the
\* minimum or the maximum of a range (tempo, energy, danceability, valence of a
\* track with features; popularity, duration of any track) is not removed by
\* that range, so it is in the filtered list whenever it satisfies the other
\* constraints.
C15_BoundsInclusive ==
  rendered =>
     \A k \in 1..Len(tracks) :
        \A r \in Ranges(tracks[k], filters) :
           (r[2] = Def(r[1]) \/ r[3] = Def(r[1])) =>
              LET others == Ranges(tracks[k], filters) \ {r}
                  item == tracks[k]
              IN (/\ r[2].defined => r[1] >= r[2].value
                  /\ r[3].defined => r[1] <= r[3].value
                  /\ \A o \in others : InRange(o[1], o[2], o[3])
                  /\ WithFeatures(item) =>
                       (filters.key.defined => item.audioFeatures.key = filters.key.value)
                  /\ Wanted(filters.explicitOnly) => item.track.explicit
                  /\ Wanted(filters.nonExplicitOnly) => ~item.track.explicit)
                 => item \in Elems(filteredTracks)

C15_Witness ==
  /\ rendered
  /\ filters.bpmMin = Def(120)
  /\ filters.bpmMax = Def(120)
  /\ tracks = <<AnnotatedTrack(1, TRUE), AnnotatedTrack(2, TRUE)>>
  /\ filteredTracks = <<AnnotatedTrack(1, TRUE)>>

----------------------------------------------------------------------------
(* C16 *)

\* the key constraint is exact-match: set, it keeps of the tracks with features
\* only those of that key; unset, it removes no track
C16_KeyExactMatch ==
  rendered =>
     \A k \in 1..Len(tracks) :
        WithFeatures(tracks[k]) =>
           /\ (filters.key.defined /\ tracks[k] \in Elems(filteredTracks)) =>
                tracks[k].audioFeatures.key = filters.key.value
           /\ (/\ filters.key.defined => tracks[k].audioFeatures.key = filters.key.value
               /\ SatisfiesFeature(tracks[k].audioFeatures, [filters EXCEPT !.key = Undefined])
               /\ SatisfiesBasic(tracks[k].track, filters)) =>
                tracks[k] \in Elems(filteredTracks)

\* C16: the criteria carry a key constraint and a mode constraint, each
\* exact-match: set, it keeps of the tracks with features only those whose key
\* (whose mode) equals it; unset, it removes no track.
C16_KeyAndModeExactMatch ==
  /\ "key" \in DOMAIN filters
  /\ "mode" \in DOMAIN filters
  /\ C16_KeyExactMatch
  /\ rendered =>
       \A k \in 1..Len(tracks) :
          (/\ WithFeatures(tracks[k])
           /\ filters.mode.defined
           /\ tracks[k] \in Elems(filteredTracks)) =>
             tracks[k].audioFeatures.mode = filters.mode.value

----------------------------------------------------------------------------
(* C17 *)

\* no criterion is set: every field is absent, or an explicit toggle is false
NoCriterion(f) ==
  \A n \in FilterFields :
     \/ f[n] = Undefined
     \/ n \in {"explicitOnly", "nonExplicitOnly"} /\ f[n] = Def(FALSE)

\* C17: with no criterion set (the empty criteria, or explicit toggles that are
\* false) the filtered list is the input list: the same tracks in the same
\* order, with or without features.
C17_NoCriterionNoFilter ==
  (rendered /\ NoCriterion(filters)) =>
     /\ filteredTracks = tracks
     /\ Len(filteredTracks) = Len(tracks)
     /\ \A k \in 1..Len(tracks) : filteredTracks[k] = tracks[k]

C17_Witness ==
  /\ rendered
  /\ filters.explicitOnly = Def(FALSE)
  /\ filters.nonExplicitOnly = Def(FALSE)
  /\ tracks = <<AnnotatedTrack(2, TRUE), AnnotatedTrack(1, FALSE), AnnotatedTrack(2, FALSE)>>
  /\ filteredTracks = tracks

C17_WitnessEmptyCriteria ==
  /\ rendered
  /\ filters = EmptyFilters
  /\ tracks = <<AnnotatedTrack(1, TRUE), AnnotatedTrack(2, FALSE), AnnotatedTrack(1, TRUE)>>
  /\ filteredTracks = tracks

----------------------------------------------------------------------------
(* C18 *)

\* the mean of the numbers xs: their sum over their number, 0 for none
MeanOf(xs) == IF xs = <<>> THEN Whole(0) ELSE Ratio(Total(xs), Len(xs))

\* C18: over the filtered list, each of avgTempo, avgEnergy, avgDanceability
\* and avgValence is the sum over the filtered tracks that have features divided
\* by the number of those tracks, and 0 when there is none; totalDuration is the
\* sum of duration_ms and avgPopularity the mean popularity over all the filtered
\* tracks (0 for an empty list); count is the length of the list.
C18_Aggregates ==
  rendered =>
     LET wf == Featured(filteredTracks)
         all == filteredTracks
     IN /\ stats.count = Len(all)
        /\ stats.avgTempo = MeanOf([k \in 1..Len(wf) |-> wf[k].audioFeatures.tempo])
        /\ stats.avgEnergy = MeanOf([k \in 1..Len(wf) |-> wf[k].audioFeatures.energy])
        /\ stats.avgDanceability =
             MeanOf([k \in 1..Len(wf) |-> wf[k].audioFeatures.danceability])
        /\ stats.avgValence = MeanOf([k \in 1..Len(wf) |-> wf[k].audioFeatures.valence])
        /\ stats.totalDuration = Total([k \in 1..Len(all) |-> all[k].track.duration_ms])
        /\ stats.avgPopularity = MeanOf([k \in 1..Len(all) |-> all[k].track.popularity])

C18_Witness ==
  /\ rendered
  /\ filteredTracks = <<AnnotatedTrack(1, TRUE), AnnotatedTrack(2, FALSE), AnnotatedTrack(2, TRUE)>>
  /\ stats.avgTempo = Ratio(250, 2)
  /\ stats.avgPopularity = Ratio(160, 3)
  /\ stats.totalDuration = 780000

C18_WitnessNoFeatures ==
  /\ rendered
  /\ filteredTracks = <<AnnotatedTrack(1, FALSE), AnnotatedTrack(2, FALSE)>>
  /\ stats.avgTempo = Whole(0)
  /\ stats.avgValence = Whole(0)
  /\ ~stats.hasAudioFeatures
  /\ stats.avgPopularity = Ratio(80, 2)
  /\ stats.totalDuration = 480000

----------------------------------------------------------------------------
(* C20 *)

FilteredHasFeatures == \E k \in 1..Len(filteredTracks) : WithFeatures(filteredTracks[k])

\* the BPM inputs are enabled exactly when stats.hasAudioFeatures is true,
\* which is when the filtered list, not the full track list, holds a track with
\* features
C20_EnabledIffFilteredHasFeatures ==
  rendered =>
     /\ filteredTracks = FilteredTracks(tracks, filters)
     /\ stats.hasAudioFeatures <=> FilteredHasFeatures
     /\ ~BpmInputsDisabled <=> FilteredHasFeatures
     /\ FilteredHasFeatures => \E k \in 1..Len(tracks) : WithFeatures(tracks[k])

\* a BPM bound changes to another value only while the BPM inputs are enabled;
\* while they are disabled, a step that changes a BPM bound is 'Reset all'
C20_OnlyResetAll ==
  (filters'.bpmMin # filters.bpmMin \/ filters'.bpmMax # filters.bpmMax) =>
     \/ ~BpmInputsDisabled /\ FilteredHasFeatures
     \/ filters' = EmptyFilters

\* C20: the BPM inputs of the filter panel are enabled exactly when
\* stats.hasAudioFeatures is true, that is when the filtered list holds a track
\* with features; and whenever they are disabled a BPM bound in force can only
\* be removed through 'Reset all' (the witness is a state where a BPM bound is
\* in force, a loaded track has features and the BPM inputs are disabled).
C20_BpmInputs == []C20_EnabledIffFilteredHasFeatures /\ [][C20_OnlyResetAll]_vars

C20_Witness ==
  /\ rendered
  /\ filters.bpmMin = Def(125)
  /\ tracks = <<AnnotatedTrack(1, TRUE), AnnotatedTrack(2, FALSE)>>
  /\ filteredTracks = <<AnnotatedTrack(2, FALSE)>>
  /\ BpmInputsDisabled
  /\ ~stats.hasAudioFeatures
  /\ stats.count = 1

----------------------------------------------------------------------------
(* Vocabulary of the loading claims *)

FeatureLoader == loaderRev = "features"

\* p is a / b rounded to the nearest integer, halves up
IsRounded(p, a, b) == (2 * p - 1) * b <= 2 * a /\ 2 * a < (2 * p + 1) * b

\* the step ends the processing of batch bi of the feature loader
BatchProcessed ==
  /\ FeatureLoader
  /\ lpc \in {"awaitResponse", "awaitText", "awaitJson"}
  /\ lpc' \in {"delay", "finished"} \/ bi' # bi

\* the number of entries of the given track in a list
Occurrences(items, id) == Cardinality({k \in 1..Len(items) : items[k].track.id = id})

\* the effect has merged features into tracks that had none
Enriched ==
  \E k \in 1..Len(tracks) :
    tracks[k].audioFeatures.defined /\ ~initialTracks[k].audioFeatures.defined

----------------------------------------------------------------------------
(* C21 *)
\* C21: in the feature-loading loop, after batch i of n has been processed,
\* whatever its outcome, loadingProgress is round((i + 1) / n x 100), and a
\* delay of 1000 ms precedes every batch request but the first.
C21_ProgressAfterBatch ==
  BatchProcessed => IsRounded(loadingProgress', (bi + 1) * 100, Len(batches))

C21_DelayBeforeRequest ==
  FeatureLoader =>
    \A j \in 2..Len(trace) :
      trace[j].e = "request" => trace[j - 1] = [e |-> "delay", ms |-> 1000]

C21_ProgressAndDelay == []C21_DelayBeforeRequest /\ [][C21_ProgressAfterBatch]_vars

----------------------------------------------------------------------------
(* C22 *)
\* C22: progressive enrichment never changes the track list itself: tracks
\* keeps the length and the order of the initial list, and a merge only
\* attaches or replaces features: it removes none, and it leaves alone every
\* track for which the merged batch holds no result.
C22_SameList ==
  lpc # "none" =>
    /\ Len(tracks) = Len(initialTracks)
    /\ \A k \in 1..Len(tracks) : tracks[k].track = initialTracks[k].track

C22_MergeOnlyAttaches ==
  lpc # "none" =>
    \A k \in 1..Len(tracks) :
      /\ tracks[k].audioFeatures.defined => tracks'[k].audioFeatures.defined
      /\ tracks'[k] # tracks[k] =>
           /\ tracks'[k].audioFeatures.defined
           /\ tracks'[k].audioFeatures.id = tracks[k].track.id
           /\ IF FeatureLoader
                THEN \E j \in 1..Len(batches[bi + 1]) :
                       batches[bi + 1][j] = tracks[k].track.id
                ELSE tracks[k].track.id \in DOMAIN results'

C22_Enrichment == []C22_SameList /\ [][C22_MergeOnlyAttaches]_vars

\* two batches have been merged, the second after the first: every track has
\* its features
C22_Witness ==
  /\ FeatureLoader
  /\ lpc = "finished"
  /\ Len(batches) >= 2
  /\ Len(tracks) > BatchSize
  /\ \A k \in 1..Len(tracks) :
       tracks[k].audioFeatures.defined /\ ~initialTracks[k].audioFeatures.defined

----------------------------------------------------------------------------
(* C23 *)
\* C23: for fixed criteria, attaching audio features to tracks can only shrink
\* the filtered set: every track of the filtered list after the merge was in
\* the filtered list before it, as many times.
C23_Shrinks ==
  (lpc # "none" /\ tracks' # tracks /\ filters' = filters) =>
    \A k \in 1..Len(filteredTracks') :
      Occurrences(filteredTracks', filteredTracks'[k].track.id)
        <= Occurrences(filteredTracks, filteredTracks'[k].track.id)

C23_EnrichmentShrinks == [][C23_Shrinks]_vars

\* a track that came without features has received them and fails the BPM
\* criterion, while a track that came without features passes it
C23_Witness ==
  /\ Enriched
  /\ filters.bpmMin.defined
  /\ \E k \in 1..Len(tracks) :
       /\ ~initialTracks[k].audioFeatures.defined
       /\ tracks[k].audioFeatures.defined
       /\ Occurrences(filteredTracks, tracks[k].track.id) = 0
  /\ \E k \in 1..Len(tracks) :
       /\ ~tracks[k].audioFeatures.defined
       /\ Occurrences(filteredTracks, tracks[k].track.id) > 0

----------------------------------------------------------------------------
(* C24 *)
\* C24: the loading indicator always clears: once isLoadingFeatures is true,
\* it eventually becomes false, whatever the outcomes of the batches, provided
\* every request settles.
C24_IndicatorClears == isLoadingFeatures ~> ~isLoadingFeatures

\* the loop has ended after a batch that failed and one that did not
C24_Witness ==
  /\ FeatureLoader
  /\ lpc = "finished"
  /\ ~isLoadingFeatures
  /\ Len(batches) >= 2
  /\ loadingError # NoLoadingError
  /\ Enriched

\* the BPM analysis has ended and the indicator is cleared
C24_WitnessBpm ==
  /\ loaderRev = "bpm"
  /\ lpc = "finished"
  /\ ~isLoadingFeatures
  /\ Len(batches) >= 2
  /\ trace # <<>>

----------------------------------------------------------------------------
(* C25 *)

\* the handler has answered after addTracksToPlaylist rejected at chunk i + 1
AddTracksFailed ==
  /\ routePc = "responded"
  /\ op = "addTracksToPlaylist"
  /\ result.kind = "thrown"

\* C25: POST /api/playlists/create is not atomic: when createPlaylist succeeds
\* and addTracksToPlaylist then fails at chunk k, the route answers 500 while
\* the new playlist holds exactly chunks 1..k-1, in order; no later chunk is
\* sent and no rollback request is issued.
C25_PrefixStaysUpstream ==
  AddTracksFailed =>
    /\ routeResponse.status = 500
    /\ playlist = Concat(SubSeq(chunks, 1, i))
    /\ Len(calls) = i + 2
    /\ calls[1] = CreateRequest
    /\ \A k \in 2..Len(calls) : calls[k] = AppendRequest(chunks[k - 1])

\* C26 (first part): at most one call of handleCreatePlaylist is running, and
\* isCreatingPlaylist is true exactly while one is: from its start until its
\* request has settled, and false again after a success and after a failure.
C26_FlagWhileInFlight ==
  /\ Len(flights) <= 1
  /\ isCreatingPlaylist <=> flights # <<>>

\* C26 (second part): while isCreatingPlaylist is true the open button and
\* the submit button are disabled: no step opens the modal or posts a request.
C26_ButtonsDisabled ==
  [][isCreatingPlaylist =>
       /\ posts' = posts
       /\ isModalOpen' => isModalOpen]_vars

\* C26: at most one create-playlist request is in flight at a time.
C26_SingleFlight == []C26_FlagWhileInFlight /\ C26_ButtonsDisabled

\* a second request is in flight after the first has settled
C26_Witness ==
  /\ isCreatingPlaylist
  /\ Len(posts) = 2
  /\ Len(flights) = 1
  /\ flights[1].at = "json"

\* C27: every request of '/', '/dashboard' or '/playlist/[id]' ends in a
\* rendered page after finitely many redirects, whatever the session is.
C27_EveryRequestRenders == (pagePc = "auth") ~> (pagePc = "rendered")

\* a token carries the error of a failed refresh
HasRefreshError(token) ==
  token # NoToken /\ token.error = Def(RefreshAccessTokenError)

\* C28 (the callback): the token the jwt callback returns for a token that
\* carries 'RefreshAccessTokenError' carries it too, whether the refresh
\* failed, succeeded or was not needed.
C28_CallbackKeepsError ==
  (HasRefreshError(jwtIn) /\ jwtOut # NoToken) => HasRefreshError(jwtOut)

\* C28 (the cookie): only a fresh sign-in takes the error out of the cookie.
C28_CookieKeepsError ==
  [][(HasRefreshError(cookie) /\ jwtIn' # FreshToken) => HasRefreshError(cookie')]_vars

\* C28: the refresh error flag is sticky.
C28_StickyError == []C28_CallbackKeepsError /\ C28_CookieKeepsError

\* a refresh has succeeded for a token that carried the error, and the token
\* with its new expiry is in the cookie
C28_Witness ==
  /\ HasRefreshError(jwtIn)
  /\ jwtOut # NoToken
  /\ jwtOut.accessTokenExpires # jwtIn.accessTokenExpires
  /\ jwtOut.accessTokenExpires.defined
  /\ cookie = jwtOut

\* the route accepts the request: a session with an access token and a body
\* with 1 to 50 track ids
Accepted(req) ==
  /\ req.session = "signedIn"
  /\ req.json
  /\ req.array
  /\ Len(req.trackIds) \in 1..MaxIds

\* C29: for every accepted request the audio-analysis revision of the route
\* sends exactly one upstream request, for trackIds[0], and answers with at
\* most one feature, whose id is trackIds[0]; no later id receives features.
C29_FirstTrackOnly ==
  (featuresPc = "responded" /\ Accepted(featuresRequest)) =>
    /\ spotifyRequests = <<AnalysisRequest(featuresRequest.trackIds[1])>>
    /\ featuresResponse.status = 200
    /\ Len(featuresResponse.body.audioFeatures) <= 1
    /\ \A k \in 1..Len(featuresResponse.body.audioFeatures) :
         featuresResponse.body.audioFeatures[k].id = featuresRequest.trackIds[1]

\* a request of 50 ids is answered with the feature of its first id
C29_Witness ==
  /\ featuresPc = "responded"
  /\ Len(featuresRequest.trackIds) = MaxIds
  /\ featuresResponse.status = 200
  /\ Len(featuresResponse.body.audioFeatures) = 1

\* C30: starting from the empty criteria, after any sequence of edits in the
\* filter panel and clicks on 'Reset all', explicitOnly and nonExplicitOnly
\* are never both true.
C30_ExplicitFlagsExclusive ==
  ~(Truthy(filters.explicitOnly) /\ Truthy(filters.nonExplicitOnly))

\* 'Clean only' has been chosen after 'Explicit only' set the other flag, next
\* to a criterion of another control
C30_Witness ==
  /\ filters.nonExplicitOnly = Def(TRUE)
  /\ filters.explicitOnly = Def(FALSE)
  /\ \E n \in FilterFields \ {"explicitOnly", "nonExplicitOnly"} : filters[n].defined

====
